---- MODULE Spec2Model ----
(***************************************************************************)
(* Model of the OpenMatchEngine .jsb tooling:                              *)
(*   - prepare_simatch.patch_physical_constraints  (in-place patcher)      *)
(*   - physics_decode_jsb.decode_physical_constraints / main (decoder)     *)
(*   - player_ratings_decoder.tok_stream            (token reader)         *)
(* Buffers are sequences of bytes (0..255).  Python offsets are 0-based,   *)
(* TLA+ sequences are 1-based: At(b, p) is Python's b[p].                  *)
(***************************************************************************)
EXTENDS Integers, Sequences, FiniteSets, TLC

VARIABLES
    jsb_file,    \* bytes of physics/physical_constraints.jsb on disk
    offsets,     \* physical_constraints_offsets: sequence of [key, offs] entries
    json,        \* physical_constraints.json: [kind, items]
    jsb_data,    \* the patcher's in-memory bytearray
    pc,          \* position of the patcher / decoder scripts
    ei,          \* index of the edit being processed (for key, val in updates.items())
    li,          \* index of the loc_key being processed (for loc_key in ("loc","loc2"))
    warnings,    \* warnings printed by the current patch call
    trail,       \* occurrences visited by the current patch call, with outcome
    run,         \* number of patch calls started on the current simatch tree
    before,      \* jsb_file as it was when the current patch call started
    original,    \* the file of the pristine tree, which build_simatch copies
    origin,      \* who wrote physical_constraints.json: "none", "user", or the decoder's choice
    ignored,     \* compare_jsb_copies: the local ignored, a set of keys
    desired,     \* desired_physical_constraints.json: [kind, items]
    verdict,     \* <<>> or <<what compare_jsb_copies / verify_physical_constraints returned>>
    report,      \* the [DIFF], [WARN] and [FAIL] lines printed by the two utilities
    buf,         \* tok_stream: the buffer
    start,       \* tok_stream: start argument
    stop,        \* tok_stream: stop argument (n)
    cur,         \* tok_stream: the cursor i
    tpc,         \* tok_stream: position of the generator
    tokens,      \* tok_stream: tokens yielded so far
    heads,       \* tok_stream: what each loop iteration did, in order
    ppc,         \* structural parser: position in the running parse function
    verbose,     \* structural parser: the verbose argument
    ts,          \* parse_expected_score: cursor of the generator ts
    got,         \* parse_expected_score: <<>> or <<what next(ts) gave expect>>
    row,         \* parse_expected_score: the loop variable row
    name,        \* parse_expected_score: the local name of the current row
    neg,         \* parse_expected_score: the local neg of the current row
    triplets,    \* parse_expected_score: the local list triplets
    result,      \* structural parser: <<>> or <<the value returned>>
    resyncs,     \* parse_expected_score: the streams created inside the loop
    seen,        \* parse_expected_score: what each expect call met, in order
    body,        \* parse_role_data: the local body (data = buf[body:stop])
    scan,        \* parse_role_data: the local cur, an offset into data
    coeffs,      \* parse_role_data: the local list coeffs
    blocks,      \* parse_role_data: the local list blocks
    blk_id,      \* parse_role_data: the local blk_id
    pairs,       \* parse_role_data: every Role_object appended so far, in order
    intended,    \* parse_role_data: <<>> or <<the integer one pair of buf was encoded from>>
    declared,    \* parse_role_lookup: the local declared, <<>> for None or <<count>>
    rows,        \* parse_role_lookup: the local list rows
    made,        \* parse_role_lookup: <<>> or <<how many well-formed rows buf was built with>>
    spc,         \* decode_season: position in decode_season
    locs,        \* decode_season: the five offsets of the Hex_address_object loc
    invoked,     \* decode_season: the section parsers called so far, in order
    parts        \* decode_season: what the section parsers returned so far

checkVars == <<ignored, desired, verdict, report>>
\* the variables of the physics scripts: the patcher, the decoder and its
\* comparison utilities
patchVars == <<jsb_file, offsets, json, jsb_data, pc, ei, li, warnings, trail,
               run, before, original, origin, checkVars>>
tokVars == <<buf, start, stop, cur, tpc, tokens, heads>>
scoreVars == <<ppc, verbose, ts, got, row, name, neg, triplets, result, resyncs, seen>>
roleVars == <<body, scan, coeffs, blocks, blk_id, pairs>>
valueVars == <<intended>>
lookupVars == <<declared, rows, made>>
seasonVars == <<spc, locs, invoked, parts>>
parseVars == <<scoreVars, roleVars, valueVars, lookupVars, seasonVars>>
notScoreVars == <<patchVars, tokVars, roleVars, valueVars, lookupVars, seasonVars>>
\* what the patcher and the decoder's main leave alone
notPatchVars == <<tokVars, parseVars, checkVars>>
notTokVars == <<patchVars, parseVars>>
vars == <<patchVars, tokVars, parseVars>>

----------------------------------------------------------------------------
(* Bounds of the model *)

\* how many times patch_physical_constraints is run on the same file
MaxRuns == 2
\* how many entries an edit map (physical_constraints.json) has at most
MaxEdits == 2
\* how many field chunks a physical_constraints.jsb input is made of at most
MaxChunks == 2
\* length of the longest enumerated tok_stream buffer
MaxTokLen == 4

----------------------------------------------------------------------------
(* Bytes and byte buffers *)

At(b, p) == b[p + 1]

Min(a, b) == IF a < b THEN a ELSE b

\* Python b[lo:hi] with 0 <= lo (indices clamp to len(b))
Slice(b, lo, hi) == SubSeq(b, Min(lo, Len(b)) + 1, Min(hi, Len(b)))

\* bytearray slice assignment b[lo:hi] = x with lo <= hi: the part of the slice
\* that lies inside b is replaced, and x is inserted whole, so b grows when the
\* slice reaches past its end
SliceAssign(b, lo, hi, x) ==
    SubSeq(b, 1, Min(lo, Len(b))) \o x \o SubSeq(b, Min(hi, Len(b)) + 1, Len(b))

\* Python integers are unbounded and the checker's are 32-bit: an integer v is
\* kept as its two 16-bit halves, v = hi * 65536 + lo with lo in 0..65535
W(hi, lo) == [hi |-> hi, lo |-> lo]

\* val.to_bytes(4, "little", signed=False) raises OverflowError outside 0..2^32-1
FitsU32(val) == 0 <= val.hi /\ val.hi < 65536

\* a conversion that writes the most significant byte first
to_bytes4_big(val) ==
    << val.hi \div 256, val.hi % 256, val.lo \div 256, val.lo % 256 >>

to_bytes4(val) ==
    << val.lo % 256, val.lo \div 256, val.hi % 256, val.hi \div 256 >>

ByteOr0(blob, k) == IF k <= Len(blob) THEN blob[k] ELSE 0

\* int.from_bytes(blob, "little") for a blob of at most 4 bytes
from_bytes(blob) ==
    W(ByteOr0(blob, 3) + 256 * ByteOr0(blob, 4), ByteOr0(blob, 1) + 256 * ByteOr0(blob, 2))

----------------------------------------------------------------------------
(* prepare_simatch.py: patch_physical_constraints *)

\* an ignored set without version_year
ignored_keys_no_year == {"version_major", "version_minor", "version_release"}

ignored_keys == {"version_year", "version_major", "version_minor", "version_release"}

\* the fixed "32-bit integer" indicator byte
IND32 == 2

LocKeys == <<"loc", "loc2">>

\* key in physical_constraints_offsets
HasKey(tbl, key) == \E n \in 1..Len(tbl) : tbl[n].key = key

\* physical_constraints_offsets[key]
Lookup(tbl, key) == tbl[CHOOSE n \in 1..Len(tbl) : tbl[n].key = key].offs

\* indicator_pos = offset + len(key)
IndicatorPos(key, offset) == offset + Len(key)

\* a patcher whose slice is empty (data_pos:data_pos): the value is inserted
PatchOccurrenceInsert(data, key, offset, val) ==
    LET indicator_pos == IndicatorPos(key, offset)
        data_pos == indicator_pos + 1
    IN  IF indicator_pos >= Len(data)
        THEN [st |-> "IndexError", data |-> data]
        ELSE IF At(data, indicator_pos) # IND32
        THEN [st |-> "skipped", data |-> data]
        ELSE IF ~FitsU32(val)
        THEN [st |-> "OverflowError", data |-> data]
        ELSE [st |-> "patched",
              data |-> SliceAssign(data, data_pos, data_pos, to_bytes4(val))]

\* a patcher that does not look at the indicator byte
PatchOccurrenceNoCheck(data, key, offset, val) ==
    LET indicator_pos == IndicatorPos(key, offset)
        data_pos == indicator_pos + 1
    IN  IF indicator_pos >= Len(data)
        THEN [st |-> "IndexError", data |-> data]
        ELSE IF ~FitsU32(val)
        THEN [st |-> "OverflowError", data |-> data]
        ELSE [st |-> "patched",
              data |-> SliceAssign(data, data_pos, data_pos + 4, to_bytes4(val))]

\* a patcher that writes the value over the indicator byte (data_pos off by one)
PatchOccurrenceAtIndicator(data, key, offset, val) ==
    LET indicator_pos == IndicatorPos(key, offset)
    IN  IF indicator_pos >= Len(data)
        THEN [st |-> "IndexError", data |-> data]
        ELSE IF At(data, indicator_pos) # IND32
        THEN [st |-> "skipped", data |-> data]
        ELSE IF ~FitsU32(val)
        THEN [st |-> "OverflowError", data |-> data]
        ELSE [st |-> "patched",
              data |-> SliceAssign(data, indicator_pos, indicator_pos + 4, to_bytes4(val))]

\* the body of the loop over loc_key for an occurrence that is in the table:
\* the indicator check, the conversion of the value and the slice assignment
PatchOccurrence(data, key, offset, val) ==
    LET indicator_pos == IndicatorPos(key, offset)
        data_pos == indicator_pos + 1
    IN  IF indicator_pos >= Len(data)
        THEN [st |-> "IndexError", data |-> data]
        ELSE IF At(data, indicator_pos) # IND32
        THEN [st |-> "skipped", data |-> data]
        ELSE IF ~FitsU32(val)
        THEN [st |-> "OverflowError", data |-> data]
        ELSE [st |-> "patched",
              data |-> SliceAssign(data, data_pos, data_pos + 4, to_bytes4(val))]

\* an except branch that still writes the buffer (as a finally clause would)
FileAfterAbortWritten(onDisk, inMemory) == inMemory

\* what the file holds after the call ended in the except branch: write_bytes
\* was not reached
FileAfterAbort(onDisk, inMemory) == onDisk

\* what the file holds after jsb_path.write_bytes(jsb_data)
FileAfterWrite(onDisk, inMemory) == inMemory

\* a loop head that drops an unknown key like an ignored one, without a warning
EditClassSilent(tbl, key) ==
    IF key \in ignored_keys \/ ~HasKey(tbl, key) THEN "ignored" ELSE "known"

\* the two tests at the head of the loop over updates.items()
EditClass(tbl, key) ==
    IF key \in ignored_keys THEN "ignored"
    ELSE IF ~HasKey(tbl, key) THEN "unknown"
    ELSE "known"

UnknownKeyWarning(key) == [kind |-> "unknown_key", key |-> key, byte |-> 0]

IndicatorWarning(key, byte) == [kind |-> "indicator", key |-> key, byte |-> byte]

CurKey == json.items[ei].key
CurVal == json.items[ei].val
CurLocKey == LocKeys[li]
CurOffset == Lookup(offsets, CurKey)[CurLocKey]
CurResult == PatchOccurrence(jsb_data, CurKey, CurOffset, CurVal)

\* try: jsb_data = bytearray(read_bytes()); no JSON file: return
PatchNoJson ==
    /\ pc = "ready" /\ json.kind = "none"
    /\ pc' = "skipped"
    /\ jsb_data' = jsb_file
    /\ run' = run + 1
    /\ before' = jsb_file
    /\ warnings' = <<>> /\ trail' = <<>>
    /\ UNCHANGED <<jsb_file, offsets, json, ei, li, original, origin>>
    /\ UNCHANGED notPatchVars

\* the JSON file holds a list: updates.items() raises, the except branch exits
PatchJsonNotDict ==
    /\ pc = "ready" /\ json.kind = "list"
    /\ pc' = "failed"
    /\ jsb_data' = jsb_file
    /\ jsb_file' = FileAfterAbort(jsb_file, jsb_file)
    /\ run' = run + 1
    /\ before' = jsb_file
    /\ warnings' = <<>> /\ trail' = <<>>
    /\ UNCHANGED <<offsets, json, ei, li, original, origin>>
    /\ UNCHANGED notPatchVars

\* the file is read and the loop over updates.items() starts
PatchBegin ==
    /\ pc = "ready" /\ json.kind = "dict"
    /\ pc' = "edit"
    /\ jsb_data' = jsb_file
    /\ ei' = 1 /\ li' = 1
    /\ run' = run + 1
    /\ before' = jsb_file
    /\ warnings' = <<>> /\ trail' = <<>>
    /\ UNCHANGED <<jsb_file, offsets, json, original, origin>>
    /\ UNCHANGED notPatchVars

\* if key in ignored_keys: continue
SkipIgnored ==
    /\ pc = "edit" /\ ei <= Len(json.items)
    /\ EditClass(offsets, CurKey) = "ignored"
    /\ ei' = ei + 1
    /\ UNCHANGED <<jsb_file, offsets, json, jsb_data, pc, li, warnings, trail,
                   run, before, original, origin>>
    /\ UNCHANGED notPatchVars

\* if key not in physical_constraints_offsets: warning, continue
SkipUnknown ==
    /\ pc = "edit" /\ ei <= Len(json.items)
    /\ EditClass(offsets, CurKey) = "unknown"
    /\ warnings' = Append(warnings, UnknownKeyWarning(CurKey))
    /\ ei' = ei + 1
    /\ UNCHANGED <<jsb_file, offsets, json, jsb_data, pc, li, trail,
                   run, before, original, origin>>
    /\ UNCHANGED notPatchVars

\* the key is in the table: the loop over ("loc", "loc2") starts
EnterOccurrences ==
    /\ pc = "edit" /\ ei <= Len(json.items)
    /\ EditClass(offsets, CurKey) = "known"
    /\ pc' = "occ" /\ li' = 1
    /\ UNCHANGED <<jsb_file, offsets, json, jsb_data, ei, warnings, trail,
                   run, before, original, origin>>
    /\ UNCHANGED notPatchVars

\* if loc_key not in physical_constraints_offsets[key]: continue
OccAbsent ==
    /\ pc = "occ" /\ li <= Len(LocKeys)
    /\ CurLocKey \notin DOMAIN Lookup(offsets, CurKey)
    /\ li' = li + 1
    /\ UNCHANGED <<jsb_file, offsets, json, jsb_data, pc, ei, warnings, trail,
                   run, before, original, origin>>
    /\ UNCHANGED notPatchVars

\* jsb_data[indicator_pos] or val.to_bytes raises: the except branch exits and
\* the file is not written
OccRaise ==
    /\ pc = "occ" /\ li <= Len(LocKeys)
    /\ CurLocKey \in DOMAIN Lookup(offsets, CurKey)
    /\ CurResult.st \in {"IndexError", "OverflowError"}
    /\ pc' = "failed"
    /\ jsb_file' = FileAfterAbort(jsb_file, jsb_data)
    /\ trail' = Append(trail, [key |-> CurKey, loc_key |-> CurLocKey,
                               pos |-> IndicatorPos(CurKey, CurOffset),
                               val |-> CurVal, st |-> CurResult.st])
    /\ UNCHANGED <<offsets, json, jsb_data, ei, li, warnings, run, before, original, origin>>
    /\ UNCHANGED notPatchVars

\* the indicator byte is not 0x02: warning, continue
OccIndicatorMismatch ==
    /\ pc = "occ" /\ li <= Len(LocKeys)
    /\ CurLocKey \in DOMAIN Lookup(offsets, CurKey)
    /\ CurResult.st = "skipped"
    /\ jsb_data' = CurResult.data
    /\ warnings' = Append(warnings,
           IndicatorWarning(CurKey, At(jsb_data, IndicatorPos(CurKey, CurOffset))))
    /\ trail' = Append(trail, [key |-> CurKey, loc_key |-> CurLocKey,
                               pos |-> IndicatorPos(CurKey, CurOffset),
                               val |-> CurVal, st |-> "skipped"])
    /\ li' = li + 1
    /\ UNCHANGED <<jsb_file, offsets, json, pc, ei, run, before, original, origin>>
    /\ UNCHANGED notPatchVars

\* the indicator byte is 0x02: the value bytes are assigned
OccPatch ==
    /\ pc = "occ" /\ li <= Len(LocKeys)
    /\ CurLocKey \in DOMAIN Lookup(offsets, CurKey)
    /\ CurResult.st = "patched"
    /\ jsb_data' = CurResult.data
    /\ trail' = Append(trail, [key |-> CurKey, loc_key |-> CurLocKey,
                               pos |-> IndicatorPos(CurKey, CurOffset),
                               val |-> CurVal, st |-> "patched"])
    /\ li' = li + 1
    /\ UNCHANGED <<jsb_file, offsets, json, pc, ei, warnings, run, before, original, origin>>
    /\ UNCHANGED notPatchVars

\* the loop over ("loc", "loc2") is over: next entry of updates
NextEdit ==
    /\ pc = "occ" /\ li > Len(LocKeys)
    /\ pc' = "edit" /\ ei' = ei + 1 /\ li' = 1
    /\ UNCHANGED <<jsb_file, offsets, json, jsb_data, warnings, trail,
                   run, before, original, origin>>
    /\ UNCHANGED notPatchVars

\* the loop over updates is over: jsb_path.write_bytes(jsb_data)
PatchWrite ==
    /\ pc = "edit" /\ ei > Len(json.items)
    /\ jsb_file' = FileAfterWrite(jsb_file, jsb_data)
    /\ pc' = "done"
    /\ UNCHANGED <<offsets, json, jsb_data, ei, li, warnings, trail,
                   run, before, original, origin>>
    /\ UNCHANGED notPatchVars

\* patch_physical_constraints() is called again, directly, on the simatch tree
\* the call before wrote, with the same physical_constraints.json
PatchAgain ==
    /\ pc = "done" /\ run < MaxRuns
    /\ pc' = "ready"
    /\ UNCHANGED <<jsb_file, offsets, json, jsb_data, ei, li, warnings, trail,
                   run, before, original, origin>>
    /\ UNCHANGED notPatchVars

\* the script has ended
ScriptEnded == pc \in {"done", "failed", "skipped"}

\* the script is run again and the user answers "y": build_simatch deletes
\* simatch/ and copies the pristine tree, so the file to patch is the clean
\* file again; the locals of the run before are gone
BuildSimatch ==
    /\ ScriptEnded
    /\ jsb_file' = original
    /\ pc' = "ready"
    /\ run' = 0
    /\ jsb_data' = <<>> /\ ei' = 1 /\ li' = 1
    /\ warnings' = <<>> /\ trail' = <<>>
    /\ before' = original
    /\ UNCHANGED <<offsets, json, original, origin>>
    /\ UNCHANGED notPatchVars

\* the script is run again and the user does not answer "y": sys.exit(0), the
\* tree is left as it is and nothing is patched
BuildAborted ==
    /\ ScriptEnded
    /\ pc' = "aborted"
    /\ UNCHANGED <<jsb_file, offsets, json, jsb_data, ei, li, warnings, trail,
                   run, before, original, origin>>
    /\ UNCHANGED notPatchVars

----------------------------------------------------------------------------
(* src/physics_decode_jsb.py: decode_physical_constraints and main *)

\* _ASCII_OK: letters, digits and "_"
ASCII_OK == (48..57) \cup (65..90) \cup (97..122) \cup {95}

RECURSIVE find_indicator(_, _)
\* index of the first byte at or after pos that is not in _ASCII_OK
find_indicator(jsb, pos) ==
    IF pos < Len(jsb) /\ At(jsb, pos) \in ASCII_OK
    THEN find_indicator(jsb, pos + 1)
    ELSE pos

\* _int_size: <<4>> for 0x02, <<1>> for a byte with bit 7 set and low nibble 2,
\* <<>> for None
int_size(ind) ==
    IF ind = 2 THEN <<4>>
    ELSE IF ind >= 128 /\ ind % 16 = 2 THEN <<1>>
    ELSE <<>>

\* jsb[ind_pos] raises IndexError when the scan ran to the end of the buffer
GrabRaises(jsb, loc) == find_indicator(jsb, loc) >= Len(jsb)

\* _grab for a loc that is not None and does not raise: <<value>>, or <<>> for None
grab(jsb, loc) ==
    LET ind_pos == find_indicator(jsb, loc)
        size == int_size(At(jsb, ind_pos))
    IN  IF size = <<>> THEN <<>>
        ELSE LET blob == Slice(jsb, ind_pos + 1, ind_pos + 1 + size[1])
             IN  IF Len(blob) # size[1] THEN <<>> ELSE << from_bytes(blob) >>

\* _grab(key, offs.get(loc_key))
GrabEntry(jsb, offs, loc_key) ==
    IF loc_key \in DOMAIN offs THEN grab(jsb, offs[loc_key]) ELSE <<>>

\* decode_physical_constraints raises on some entry
DecodeRaises(jsb, tbl) ==
    \E n \in 1..Len(tbl) :
        /\ tbl[n].key \notin ignored_keys
        /\ \E lk \in DOMAIN tbl[n].offs : GrabRaises(jsb, tbl[n].offs[lk])

RECURSIVE DecodeFrom(_, _, _, _)
\* the dict obj1 (loc_key = "loc") or obj2 ("loc2") as the sequence of its items,
\* built from entry n of the table on
DecodeFrom(jsb, tbl, loc_key, n) ==
    IF n > Len(tbl) THEN <<>>
    ELSE LET v == GrabEntry(jsb, tbl[n].offs, loc_key)
         IN  IF tbl[n].key \in ignored_keys \/ v = <<>>
             THEN DecodeFrom(jsb, tbl, loc_key, n + 1)
             ELSE << [key |-> tbl[n].key, val |-> v[1]] >>
                  \o DecodeFrom(jsb, tbl, loc_key, n + 1)

decode_physical_constraints(jsb, tbl, which) ==
    DecodeFrom(jsb, tbl, IF which = "obj1" THEN "loc" ELSE "loc2", 1)

\* d.get(key): <<value>> or <<>>
Get(d, key) ==
    IF \E n \in 1..Len(d) : d[n].key = key
    THEN << d[CHOOSE n \in 1..Len(d) : d[n].key = key].val >>
    ELSE <<>>

\* ORDER, the presentation order of the decoder's output
ORDER == <<
    "very_slow_walk_speed", "slow_walk_speed", "walk_speed", "fast_walk_speed",
    "slow_jog_speed", "jog_speed", "moderate_jog_speed", "fast_jog_speed", "run_speed",
    "sprint_speed", "base_top_speed", "top_speed", "speed_scaler",
    "acceleration_scaler", "soft_kick_speed", "soft_to_medium_kick_speed",
    "medium_kick_speed", "medium_to_moderate_kick_speed", "moderate_kick_speed",
    "quite_hard_kick_speed", "hard_kick_speed", "very_hard_kick_speed",
    "basic_header_speed", "theoretical_max_acceleration",
    "theoretical_max_deceleration", "theoretical_max_diving_acceleration",
    "theoretical_max_diving_speed", "theoretical_max_potential_direction_change_jog",
    "theoretical_max_potential_direction_change_run",
    "theoretical_max_potential_direction_change_walk", "theoretical_max_running_speed",
    "theoretical_max_turning_rate", "theoretical_min_acceleration",
    "theoretical_min_deceleration", "theoretical_min_diving_acceleration",
    "theoretical_min_diving_speed", "theoretical_min_potential_direction_change_jog",
    "theoretical_min_potential_direction_change_run",
    "theoretical_min_potential_direction_change_walk", "min_delay_for_ball_lunge_do",
    "min_delay_for_ball_lunge_receive", "min_delay_for_block_tackle_do",
    "min_delay_for_block_tackle_receive", "min_delay_for_celebrating_a_goal",
    "min_delay_for_deflect_ball_do", "min_delay_for_deflect_ball_receive",
    "min_delay_for_diving_header", "min_delay_for_foot_up_in_tackle_do",
    "min_delay_for_foot_up_in_tackle_receive",
    "min_delay_for_force_opponent_to_lose_ball_do",
    "min_delay_for_force_opponent_to_lose_ball_receive",
    "min_delay_for_getting_injured", "min_delay_for_normal_header",
    "min_delay_for_obstruct_do", "min_delay_for_obstruct_receive",
    "min_delay_for_player_stop_to_avoid_collision",
    "min_delay_for_push_opponen_receive", "min_delay_for_push_opponent_do",
    "min_delay_for_shirt_tug_receive", "min_delay_for_shoulder_charge_do",
    "min_delay_for_shoulder_charge_receive", "min_delay_for_slide_tackle_do",
    "min_delay_for_slide_tackle_receive", "min_delay_for_trip_do",
    "min_delay_for_trip_receive", "min_delay_for_two_footed_tackle_do",
    "min_delay_for_two_footed_tackle_receive", "min_delay_for_violent_act_do",
    "min_delay_for_violent_act_receive", "min_delay_keeper_drop_ball_for_distribution",
    "min_delay_keeper_save_dive_and_hold_ball",
    "min_delay_keeper_save_dive_but_not_held",
    "min_delay_keeper_save_intentionally_drop_ball",
    "min_delay_keeper_save_no_dive_hold_ball",
    "min_delay_keeper_save_no_dive_not_held",
    "min_delay_keeper_save_with_outreached_foot",
    "min_extra_delay_for_falling_down_before_injury", "version_year" >>

\* the keys of the model in the order sorted() gives them
SortedKeys == << "bogus", "min_delay_for_shirt_tug_do", "run_speed", "version_major",
                 "version_year",
                 "walk_speed" >>

SeqRange(s) == {s[n] : n \in 1..Len(s)}

\* _ordered: the keys of ORDER first, the others alphabetically
ordered(d) ==
    LET has(k) == Get(d, k) # <<>>
        first == SelectSeq(ORDER, has)
        isLeft(k) == has(k) /\ k \notin SeqRange(ORDER)
        rest == SelectSeq(SortedKeys, isLeft)
        keys == first \o rest
    IN  [n \in 1..Len(keys) |-> [key |-> keys[n], val |-> Get(d, keys[n])[1]]]

\* physics_decode_jsb.main(choice) on a copy of the file: it raises (no JSON is
\* written), or writes obj1, obj2 or the list [obj1, obj2] to physical_constraints.json
JsonOfChoice(jsb, tbl, choice) ==
    IF choice = "both"
    THEN [kind |-> "list", items |-> <<>>]
    ELSE [kind |-> "dict", items |-> ordered(decode_physical_constraints(jsb, tbl, choice))]

DecodeMain(choice) ==
    /\ pc = "idle"
    /\ ~DecodeRaises(jsb_file, offsets)
    /\ json' = JsonOfChoice(jsb_file, offsets, choice)
    /\ origin' = choice
    /\ pc' = "ready"
    /\ UNCHANGED <<jsb_file, offsets, jsb_data, ei, li, warnings, trail,
                   run, before, original>>
    /\ UNCHANGED notPatchVars

DecodeCrash ==
    /\ pc = "idle"
    /\ DecodeRaises(jsb_file, offsets)
    /\ pc' = "ready"
    /\ UNCHANGED <<jsb_file, offsets, json, jsb_data, ei, li, warnings, trail,
                   run, before, original, origin>>
    /\ UNCHANGED notPatchVars

\* the user writes physical_constraints.json by hand
WriteJson(m) ==
    /\ pc = "idle"
    /\ json' = [kind |-> "dict", items |-> m]
    /\ origin' = "user"
    /\ pc' = "ready"
    /\ UNCHANGED <<jsb_file, offsets, jsb_data, ei, li, warnings, trail,
                   run, before, original>>
    /\ UNCHANGED notPatchVars

----------------------------------------------------------------------------
(* Inputs of the patcher and the decoder *)

\* the key text "run_speed"
KeyRun == <<114, 117, 110, 95, 115, 112, 101, 101, 100>>

\* a field with the 32-bit indicator and its 4 value bytes
Field32(v) == KeyRun \o <<2>> \o to_bytes4(v)

\* a field with the 1-byte compressed indicator 0x82 and its value byte
Field8(v) == KeyRun \o <<130, v>>

\* a field with the 32-bit indicator cut after the first value byte
FieldCut == KeyRun \o <<2, 0>>

Chunks == {Field32(W(0, 1)), Field32(W(0, 2)), Field8(2), FieldCut}

RECURSIVE Flatten(_)
Flatten(ss) == IF ss = <<>> THEN <<>> ELSE Head(ss) \o Flatten(Tail(ss))

PatchFiles ==
    {Flatten(cs) : cs \in UNION {[1..n -> Chunks] : n \in 1..MaxChunks}}

\* offset tables: two copies 14 or 11 bytes apart; two fields whose occurrences
\* overlap, each with one copy only; an ignored field beside a patched one;
\* two ignored fields with an occurrence whose indicator byte can be 0x02;
\* two fields whose occurrences are 14 bytes apart
Tables ==
    { << [key |-> "run_speed", offs |-> [loc |-> 0, loc2 |-> 14]] >>,
      << [key |-> "run_speed", offs |-> [loc |-> 0, loc2 |-> 11]] >>,
      << [key |-> "walk_speed", offs |-> [loc |-> 0]],
         [key |-> "run_speed", offs |-> [loc |-> 0]] >>,
      << [key |-> "version_year", offs |-> [loc |-> 0, loc2 |-> 14]],
         [key |-> "run_speed", offs |-> [loc2 |-> 14]] >>,
      << [key |-> "version_major", offs |-> [loc |-> 10]],
         [key |-> "version_year", offs |-> [loc |-> 0, loc2 |-> 11]],
         [key |-> "run_speed", offs |-> [loc |-> 0]] >>,
      << [key |-> "walk_speed", offs |-> [loc |-> 13]],
         [key |-> "run_speed", offs |-> [loc |-> 0]] >> }

\* 7 * 2^24: a value whose last byte is not 0
BigVal == W(1792, 0)

\* 2^32: the first value that does not fit 4 bytes
TooBig == W(65536, 0)

Edits ==
    { [key |-> "run_speed", val |-> W(0, 2)],
      [key |-> "run_speed", val |-> TooBig],
      [key |-> "walk_speed", val |-> BigVal],
      [key |-> "bogus", val |-> W(0, 2)],
      [key |-> "version_year", val |-> W(0, 2)],
      [key |-> "version_major", val |-> W(0, 2)] }

\* a JSON object has each key once
EditMaps ==
    {m \in UNION {[1..n -> Edits] : n \in 0..MaxEdits} :
        \A a, b \in 1..Len(m) : a # b => m[a].key # m[b].key}

UserWritesJson == pc = "idle" /\ \E m \in EditMaps : WriteJson(m)

\* neither comparison utility has been called
CheckIdle ==
    /\ ignored = {} /\ desired = [kind |-> "none", items |-> <<>>]
    /\ verdict = <<>> /\ report = <<>>

PatchInit ==
    /\ jsb_file \in PatchFiles
    /\ offsets \in Tables
    /\ json = [kind |-> "none", items |-> <<>>]
    /\ origin = "none"
    /\ jsb_data = <<>>
    /\ pc = "idle"
    /\ ei = 1 /\ li = 1
    /\ warnings = <<>> /\ trail = <<>>
    /\ run = 0
    /\ before = jsb_file
    /\ original = jsb_file
    /\ CheckIdle

TokIdle ==
    /\ buf = <<>> /\ start = 0 /\ stop = 0 /\ cur = 0
    /\ tpc = "off" /\ tokens = <<>> /\ heads = <<>>

\* the locals of parse_expected_score do not exist
ScoreIdle ==
    /\ ts = 0 /\ got = <<>> /\ row = 0
    /\ name = <<>> /\ neg = <<>> /\ triplets = <<>>
    /\ resyncs = <<>> /\ seen = <<>>

\* the locals of parse_role_data do not exist
RoleIdle ==
    /\ body = 0 /\ scan = 0 /\ coeffs = <<>> /\ blocks = <<>>
    /\ blk_id = 0 /\ pairs = <<>>

\* the buffer was not generated from a known integer
ValueIdle == intended = <<>>

\* the locals of parse_role_lookup do not exist
LookupIdle == declared = <<>> /\ rows = <<>> /\ made = <<>>

\* decode_season is not running
SeasonIdle == spc = "off" /\ locs = <<>> /\ invoked = <<>> /\ parts = <<>>

\* no parse function is running
ParseIdle ==
    /\ ppc = "off" /\ verbose = FALSE /\ result = <<>>
    /\ ScoreIdle /\ RoleIdle /\ ValueIdle /\ LookupIdle /\ SeasonIdle

Init == PatchInit /\ TokIdle /\ ParseIdle

PatchNext ==
    \/ UserWritesJson
    \/ \E choice \in {"obj1", "obj2", "both"} : DecodeMain(choice)
    \/ DecodeCrash
    \/ PatchNoJson
    \/ PatchJsonNotDict
    \/ PatchBegin
    \/ SkipIgnored
    \/ SkipUnknown
    \/ EnterOccurrences
    \/ OccAbsent
    \/ OccRaise
    \/ OccIndicatorMismatch
    \/ OccPatch
    \/ NextEdit
    \/ PatchWrite
    \/ PatchAgain
    \/ BuildSimatch
    \/ BuildAborted

Next == PatchNext

Spec == Init /\ [][Next]_vars

----------------------------------------------------------------------------
(* Properties of the patcher *)

\* the (key, loc_key) pairs a patch call that runs to its end visits, in order
RECURSIVE ExpectedVisits(_, _, _)
ExpectedVisits(tbl, items, n) ==
    IF n > Len(items) THEN <<>>
    ELSE IF items[n].key \in ignored_keys \/ ~HasKey(tbl, items[n].key)
    THEN ExpectedVisits(tbl, items, n + 1)
    ELSE SelectSeq([k \in 1..Len(LocKeys) |-> <<items[n].key, LocKeys[k]>>],
                   LAMBDA v : v[2] \in DOMAIN Lookup(tbl, v[1]))
         \o ExpectedVisits(tbl, items, n + 1)

Visits == [n \in 1..Len(trail) |-> <<trail[n].key, trail[n].loc_key>>]

\* an occurrence has been patched by the current call
SomePatched == \E n \in 1..Len(trail) : trail[n].st = "patched"

\* the value region of the occurrence whose indicator is at pos
ValueRegion(pos) == (pos + 1)..(pos + 4)

\* p lies in the value region of an occurrence the current call patched
InPatchedRegion(p) ==
    \E n \in 1..Len(trail) : trail[n].st = "patched" /\ p \in ValueRegion(trail[n].pos)

\* C1: whenever patch completes without error, the buffer it writes back has
\* the length of the buffer it read.  Stated as written; the code breaks it when
\* a value region reaches past the end of the buffer.
C1_LengthPreserved ==
    pc = "done" => Len(jsb_file) = Len(before)

\* C2 as written: a second patch with the same edit map yields the buffer the
\* first patch produced, for every buffer, offset table and edit map.  Stated
\* on the runs in which the buffer kept its length, so that a violation does
\* not rest on C1.
C2_IdempotentAlways ==
    (run >= 2 /\ pc = "done" /\ Len(jsb_file) = Len(original)) => jsb_file = before

\* the indicator positions of the occurrences of the fields of the edit map
\* that patch looks at
EditedIndicators(tbl, items) ==
    UNION { {IndicatorPos(items[n].key, Lookup(tbl, items[n].key)[lk]) :
                lk \in DOMAIN Lookup(tbl, items[n].key)} :
            n \in {m \in 1..Len(items) :
                     items[m].key \notin ignored_keys /\ HasKey(tbl, items[m].key)} }

\* no indicator byte of an edited field lies in the value region of an
\* occurrence of an edited field
NoOverlap(tbl, items) ==
    \A p, q \in EditedIndicators(tbl, items) : p \notin ValueRegion(q)

\* C2 (amended): when no indicator byte of an edited field lies inside the value
\* region of an occurrence of an edited field, a second patch with the same edit
\* map does not fail and yields byte for byte the buffer of the first patch.
C2_Idempotent ==
    (run >= 2 /\ json.kind = "dict" /\ NoOverlap(offsets, json.items)) =>
        /\ pc # "failed"
        /\ pc = "done" => jsb_file = before

\* a second patch has run to its end after a first one that changed the file
C2_Witness ==
    /\ run = 2 /\ pc = "done" /\ SomePatched
    /\ NoOverlap(offsets, json.items)
    /\ jsb_file # original

\* the decoder and the patcher look at the same indicator byte: the scan from
\* each offset stops at offset + len(key)
KeyTextAligned(jsb, tbl) ==
    \A n \in 1..Len(tbl) :
        tbl[n].key \notin ignored_keys =>
            \A lk \in DOMAIN tbl[n].offs :
                find_indicator(jsb, tbl[n].offs[lk]) = IndicatorPos(tbl[n].key, tbl[n].offs[lk])

\* both copies decode to the same value for every field
CopiesAgree(jsb, tbl) ==
    \A n \in 1..Len(tbl) :
        tbl[n].key \notin ignored_keys =>
            GrabEntry(jsb, tbl[n].offs, "loc") = GrabEntry(jsb, tbl[n].offs, "loc2")

DecodedJson == origin \in {"obj1", "obj2"}

\* C3 as written: patching with the values decoded from the buffer reproduces
\* the buffer, whatever the two copies hold.  Stated on the runs in which the
\* buffer kept its length and the decoder found each indicator where the
\* patcher looks for it, so that a violation rests on the two copies alone.
C3_RoundTripAlways ==
    (DecodedJson /\ run = 1 /\ pc = "done" /\ Len(jsb_file) = Len(original)
        /\ KeyTextAligned(original, offsets))
    => jsb_file = original

\* C3 (amended): when the decoder finds each indicator at offset + len(key) and
\* both copies decode to the same value for every field, patching with the
\* decoded values reproduces the buffer byte for byte, 1-byte compressed
\* occurrences included.
C3_RoundTrip ==
    (DecodedJson /\ run >= 1 /\ pc \in {"done", "failed"}
        /\ KeyTextAligned(original, offsets) /\ CopiesAgree(original, offsets))
    => jsb_file = original

\* decoded values were written over a 32-bit occurrence, and a 1-byte
\* compressed occurrence was skipped
C3_Witness ==
    /\ DecodedJson /\ run = 1 /\ pc = "done"
    /\ KeyTextAligned(original, offsets) /\ CopiesAgree(original, offsets)
    /\ SomePatched
    /\ \E n \in 1..Len(trail) : trail[n].st = "skipped"

\* the occurrence patch is looking at has an indicator byte other than 0x02
MismatchHere ==
    /\ pc = "occ" /\ li <= Len(LocKeys)
    /\ CurLocKey \in DOMAIN Lookup(offsets, CurKey)
    /\ IndicatorPos(CurKey, CurOffset) < Len(jsb_data)
    /\ At(jsb_data, IndicatorPos(CurKey, CurOffset)) # 2

\* C4: at an occurrence whose indicator byte is not 0x02, patch changes no byte,
\* prints a warning naming the field and goes on with the next occurrence; a
\* call that runs to its end has visited every occurrence of every edit.
C4_IndicatorMismatchSkipped ==
    /\ [][MismatchHere =>
            /\ jsb_data' = jsb_data /\ jsb_file' = jsb_file
            /\ Len(warnings') = Len(warnings) + 1
            /\ warnings'[Len(warnings')].kind = "indicator"
            /\ warnings'[Len(warnings')].key = CurKey
            /\ pc' = "occ" /\ ei' = ei /\ li' = li + 1]_vars
    /\ [](pc = "done" => Visits = ExpectedVisits(offsets, json.items, 1))

\* an occurrence was skipped for its indicator and a later one was patched
C4_Witness ==
    /\ pc = "done"
    /\ \E a, b \in 1..Len(trail) :
          a < b /\ trail[a].st = "skipped" /\ trail[b].st = "patched"
    /\ \E w \in 1..Len(warnings) : warnings[w].kind = "indicator"

\* the edit patch is looking at names a field that is not in the offset table
UnknownHere ==
    /\ pc = "edit" /\ ei <= Len(json.items)
    /\ CurKey \notin ignored_keys
    /\ ~HasKey(offsets, CurKey)

\* C5: an edit whose field is not in the offset table changes no byte and
\* prints a warning; patch goes on with the next edit, fails only at an
\* occurrence, and a call that runs to its end has visited every occurrence of
\* the other edits and has written the buffer.
C5_UnknownFieldSkipped ==
    /\ [][UnknownHere =>
            /\ jsb_data' = jsb_data /\ jsb_file' = jsb_file
            /\ warnings' = Append(warnings, UnknownKeyWarning(CurKey))
            /\ pc' = "edit" /\ ei' = ei + 1]_vars
    /\ [](pc = "done" =>
            /\ Visits = ExpectedVisits(offsets, json.items, 1)
            /\ jsb_file = jsb_data)
    /\ []((pc = "failed" /\ json.kind = "dict") =>
            /\ trail # <<>>
            /\ trail[Len(trail)].st \in {"IndexError", "OverflowError"})

\* an unknown field was skipped, another edit was patched, the buffer written
C5_Witness ==
    /\ pc = "done" /\ SomePatched
    /\ \E w \in 1..Len(warnings) : warnings[w].kind = "unknown_key"
    /\ jsb_file # before

\* the occurrence patch is looking at has the indicator 0x02 and the value fits
PatchHere ==
    /\ pc = "occ" /\ li <= Len(LocKeys)
    /\ CurLocKey \in DOMAIN Lookup(offsets, CurKey)
    /\ IndicatorPos(CurKey, CurOffset) < Len(jsb_data)
    /\ At(jsb_data, IndicatorPos(CurKey, CurOffset)) = 2
    /\ FitsU32(CurVal)

\* C6: at an occurrence with indicator 0x02, the 4 positions after the
\* indicator hold the value in little-endian form, every other byte of the
\* buffer is as before; in the file a call wrote, every byte outside the value
\* regions of the patched occurrences is the byte of the file it read.
C6_ExactlyFourBytes ==
    /\ [][PatchHere =>
            LET pos == IndicatorPos(CurKey, CurOffset)
            IN  /\ Len(jsb_data') >= pos + 5
                /\ At(jsb_data', pos + 1) = CurVal.lo % 256
                /\ At(jsb_data', pos + 2) = CurVal.lo \div 256
                /\ At(jsb_data', pos + 3) = CurVal.hi % 256
                /\ At(jsb_data', pos + 4) = CurVal.hi \div 256
                /\ \A p \in 0..(Len(jsb_data') - 1) :
                      p \notin ValueRegion(pos) =>
                          p < Len(jsb_data) /\ At(jsb_data', p) = At(jsb_data, p)
                /\ \A p \in 0..(Len(jsb_data) - 1) : p < Len(jsb_data')]_vars
    /\ [](pc = "done" =>
            \A p \in 0..(Len(before) - 1) :
                ~InPatchedRegion(p) => At(jsb_file, p) = At(before, p))

\* a call patched an occurrence and wrote a file that differs from the one read
C6_Witness ==
    pc = "done" /\ SomePatched /\ jsb_file # before

\* C7: when patch aborts, the stored file is the file the call read.
C7_AbortWritesNothing ==
    pc = "failed" => jsb_file = before

\* patch aborted after it had changed its in-memory copy
C7_Witness ==
    pc = "failed" /\ SomePatched /\ jsb_data # jsb_file

----------------------------------------------------------------------------
(* src/player_ratings_decoder.py: tok_stream *)

\* the key-header prefixes 0x2A, 0x4A, 0x5A, 0x6A
KeyPrefixes == {42, 74, 90, 106}

\* not 0 < klen <= 96
BadKeyLen(klen) == ~(0 < klen /\ klen <= 96)

\* how many continuation bytes the UTF-8 lead byte b takes (0: not a lead byte)
Utf8Need(b) ==
    IF b >= 194 /\ b <= 223 THEN 1
    ELSE IF b >= 224 /\ b <= 239 THEN 2
    ELSE IF b >= 240 /\ b <= 244 THEN 3
    ELSE 0

\* the bytes that may follow lead byte b at position k
Utf8Range(b, k) ==
    IF k = 1 /\ b = 224 THEN 160..191
    ELSE IF k = 1 /\ b = 237 THEN 128..159
    ELSE IF k = 1 /\ b = 240 THEN 144..191
    ELSE IF k = 1 /\ b = 244 THEN 128..143
    ELSE 128..191

RECURSIVE Utf8Run(_, _, _)
\* how many of the bytes after the lead byte bs[1] continue its sequence
Utf8Run(bs, need, k) ==
    IF k < need /\ k + 2 <= Len(bs) /\ bs[k + 2] \in Utf8Range(bs[1], k + 1)
    THEN Utf8Run(bs, need, k + 1)
    ELSE k

RECURSIVE utf8_replace(_)
\* bytes.decode("utf-8", "replace") as the sequence of code points: every
\* maximal ill-formed part becomes U+FFFD (65533)
utf8_replace(bs) ==
    IF bs = <<>> THEN <<>>
    ELSE LET b == bs[1]
             need == Utf8Need(b)
             k == Utf8Run(bs, need, 0)
         IN  IF b < 128 THEN <<b>> \o utf8_replace(Tail(bs))
             ELSE IF need = 0 THEN <<65533>> \o utf8_replace(Tail(bs))
             ELSE IF k < need
             THEN <<65533>> \o utf8_replace(SubSeq(bs, k + 2, Len(bs)))
             ELSE IF need = 1
             THEN << (b - 192) * 64 + (bs[2] - 128) >>
                  \o utf8_replace(SubSeq(bs, 3, Len(bs)))
             ELSE IF need = 2
             THEN << (b - 224) * 4096 + (bs[2] - 128) * 64 + (bs[3] - 128) >>
                  \o utf8_replace(SubSeq(bs, 4, Len(bs)))
             ELSE << (b - 240) * 262144 + (bs[2] - 128) * 4096
                       + (bs[3] - 128) * 64 + (bs[4] - 128) >>
                  \o utf8_replace(SubSeq(bs, 5, Len(bs)))

\* a 16-bit half of a little-endian integer, from the bytes at k and k + 1
Half(bs, k) == bs[k] + 256 * bs[k + 1]

\* the top half of a signed integer
Signed16(h) == IF h >= 32768 THEN h - 65536 ELSE h

\* an unpack that takes the 4 bytes as unsigned ("<I" for "<i")
i32_unsigned(bs) == << Half(bs, 1), Half(bs, 3) >>

\* i32: struct.unpack_from("<i", b) of 4 bytes, as its halves, low first
i32(bs) == << Half(bs, 1), Signed16(Half(bs, 3)) >>

\* i64: struct.unpack_from("<q", b) of 8 bytes, as its halves, low first
i64(bs) == << Half(bs, 1), Half(bs, 3), Half(bs, 5), Signed16(Half(bs, 7)) >>

\* u32: struct.unpack_from("<I", b) of 4 bytes; the value is kept as one
\* integer because it is used as a length (top byte below 128 in the inputs)
u32(bs) == Half(bs, 1) + 65536 * Half(bs, 3)

\* an upper-case hexadecimal digit, as its code point
HexDigit(d) == IF d < 10 THEN 48 + d ELSE 55 + d

\* f"<m0x{vmark:02X}>" as code points
ctl_text(vmark) ==
    <<60, 109, 48, 120, HexDigit(vmark \div 16), HexDigit(vmark % 16), 62>>

\* a loop that reads a header while 2 bytes remain
LoopContinuesAtTwo(i, n) == i + 1 < n

\* while i + 2 < n
LoopContinues(i, n) == i + 2 < n

Token(key, typ, val, cursor) == [key |-> key, typ |-> typ, val |-> val, cursor |-> cursor]

Skip(next) == [kind |-> "skip", next |-> next, tok |-> <<>>]
Raise(what) == [kind |-> what, next |-> 0, tok |-> <<>>]
\* a reader that has already taken the byte after the token it yields
YieldLookahead(key, typ, val, next) ==
    [kind |-> "token", next |-> next + 1, tok |-> << Token(key, typ, val, next) >>]

Yield(key, typ, val, next) ==
    [kind |-> "token", next |-> next, tok |-> << Token(key, typ, val, next) >>]

\* a value reader whose control token takes the byte after the marker with it
ReadValueCtlEats(b, key, i) ==
    IF i >= Len(b) THEN Raise("IndexError")
    ELSE LET vmark == At(b, i)
             at == i + 1
         IN  IF vmark = 2
             THEN IF Len(Slice(b, at, at + 4)) < 4 THEN Raise("struct.error")
                  ELSE Yield(key, "i32", i32(Slice(b, at, at + 4)), at + 4)
             ELSE IF vmark = 3
             THEN IF Len(Slice(b, at, at + 8)) < 8 THEN Raise("struct.error")
                  ELSE Yield(key, "i64", i64(Slice(b, at, at + 8)), at + 8)
             ELSE IF vmark = 8
             THEN IF Len(Slice(b, at, at + 4)) < 4 THEN Raise("struct.error")
                  ELSE LET slen == u32(Slice(b, at, at + 4))
                       IN  Yield(key, "str",
                                 utf8_replace(Slice(b, at + 4, at + 4 + slen)),
                                 at + 4 + slen)
             ELSE IF vmark >= 128 /\ vmark <= 143
             THEN LET slen == vmark % 16
                  IN  Yield(key, "str", utf8_replace(Slice(b, at, at + slen)), at + slen)
             ELSE Yield(key, "ctl", ctl_text(vmark), at + 1)

\* the value part of one iteration: the marker at i and what follows it
ReadValue(b, key, i) ==
    IF i >= Len(b) THEN Raise("IndexError")
    ELSE LET vmark == At(b, i)
             at == i + 1
         IN  IF vmark = 2
             THEN IF Len(Slice(b, at, at + 4)) < 4 THEN Raise("struct.error")
                  ELSE Yield(key, "i32", i32(Slice(b, at, at + 4)), at + 4)
             ELSE IF vmark = 3
             THEN IF Len(Slice(b, at, at + 8)) < 8 THEN Raise("struct.error")
                  ELSE Yield(key, "i64", i64(Slice(b, at, at + 8)), at + 8)
             ELSE IF vmark = 8
             THEN IF Len(Slice(b, at, at + 4)) < 4 THEN Raise("struct.error")
                  ELSE LET slen == u32(Slice(b, at, at + 4))
                       IN  Yield(key, "str",
                                 utf8_replace(Slice(b, at + 4, at + 4 + slen)),
                                 at + 4 + slen)
             ELSE IF vmark >= 128 /\ vmark <= 143
             THEN LET slen == vmark % 16
                  IN  Yield(key, "str", utf8_replace(Slice(b, at, at + slen)), at + slen)
             ELSE Yield(key, "ctl", ctl_text(vmark), at)

\* an iteration that leaves the cursor where it is on a malformed header
TokStepStuck(b, i) ==
    LET mark == At(b, i)
    IN  IF mark \in KeyPrefixes
        THEN IF i + 1 >= Len(b) THEN Raise("IndexError")
             ELSE IF BadKeyLen(At(b, i + 1)) THEN Skip(i)
             ELSE ReadValue(b, utf8_replace(Slice(b, i + 2, i + 2 + At(b, i + 1))),
                            i + 2 + At(b, i + 1))
        ELSE IF 0 < mark /\ mark <= 96
        THEN ReadValue(b, utf8_replace(Slice(b, i + 1, i + 1 + mark)), i + 1 + mark)
        ELSE Skip(i)

\* an iteration that advances one byte on every malformed header
TokStepOneByte(b, i) ==
    LET mark == At(b, i)
    IN  IF mark \in KeyPrefixes
        THEN IF i + 1 >= Len(b) THEN Raise("IndexError")
             ELSE IF BadKeyLen(At(b, i + 1)) THEN Skip(i + 1)
             ELSE ReadValue(b, utf8_replace(Slice(b, i + 2, i + 2 + At(b, i + 1))),
                            i + 2 + At(b, i + 1))
        ELSE IF 0 < mark /\ mark <= 96
        THEN ReadValue(b, utf8_replace(Slice(b, i + 1, i + 1 + mark)), i + 1 + mark)
        ELSE Skip(i + 1)

\* an iteration whose inline branch leaves the cursor on the length byte
TokStepInlineNoAdvance(b, i) ==
    LET mark == At(b, i)
    IN  IF mark \in KeyPrefixes
        THEN IF i + 1 >= Len(b) THEN Raise("IndexError")
             ELSE IF BadKeyLen(At(b, i + 1)) THEN Skip(i + 2)
             ELSE ReadValue(b, utf8_replace(Slice(b, i + 2, i + 2 + At(b, i + 1))),
                            i + 2 + At(b, i + 1))
        ELSE IF 0 < mark /\ mark <= 96
        THEN ReadValue(b, utf8_replace(Slice(b, i, i + mark)), i + mark)
        ELSE Skip(i + 1)

\* one iteration of the loop from cursor i < len(b): the key header, then the value
TokStep(b, i) ==
    LET mark == At(b, i)
    IN  IF mark \in KeyPrefixes
        THEN IF i + 1 >= Len(b) THEN Raise("IndexError")
             ELSE IF BadKeyLen(At(b, i + 1)) THEN Skip(i + 2)
             ELSE ReadValue(b, utf8_replace(Slice(b, i + 2, i + 2 + At(b, i + 1))),
                            i + 2 + At(b, i + 1))
        ELSE IF 0 < mark /\ mark <= 96
        THEN ReadValue(b, utf8_replace(Slice(b, i + 1, i + 1 + mark)), i + 1 + mark)
        ELSE Skip(i + 1)

\* buf[i] at the head of the loop raises when stop lies past the buffer
CurStep == IF cur >= Len(buf) THEN Raise("IndexError") ELSE TokStep(buf, cur)

\* what an iteration did: where it started, how it ended, where it left the cursor
Head_(at, step) == [at |-> at, kind |-> step.kind, next |-> step.next]

\* the loop condition fails: the generator is exhausted
TokStop ==
    /\ tpc = "loop" /\ ~LoopContinues(cur, stop)
    /\ tpc' = "stopped"
    /\ UNCHANGED <<buf, start, stop, cur, tokens, heads>>
    /\ UNCHANGED notTokVars

\* a malformed key header: continue
TokSkip ==
    /\ tpc = "loop" /\ LoopContinues(cur, stop)
    /\ CurStep.kind = "skip"
    /\ cur' = CurStep.next
    /\ heads' = Append(heads, Head_(cur, CurStep))
    /\ UNCHANGED <<buf, start, stop, tpc, tokens>>
    /\ UNCHANGED notTokVars

\* an index or unpack error leaves the generator
TokRaise ==
    /\ tpc = "loop" /\ LoopContinues(cur, stop)
    /\ CurStep.kind \in {"IndexError", "struct.error"}
    /\ tpc' = "raised"
    /\ heads' = Append(heads, Head_(cur, CurStep))
    /\ UNCHANGED <<buf, start, stop, cur, tokens>>
    /\ UNCHANGED notTokVars

\* yield key, typ, val, i: the generator is suspended at the yield and control
\* is with its consumer
TokYield ==
    /\ tpc = "loop" /\ LoopContinues(cur, stop)
    /\ CurStep.kind = "token"
    /\ tokens' = tokens \o CurStep.tok
    /\ cur' = CurStep.next
    /\ heads' = Append(heads, Head_(cur, CurStep))
    /\ tpc' = "yielded"
    /\ UNCHANGED <<buf, start, stop>>
    /\ UNCHANGED notTokVars

\* the consumer calls next() again: if i >= n: break
TokBreak ==
    /\ tpc = "yielded" /\ cur >= stop
    /\ tpc' = "stopped"
    /\ UNCHANGED <<buf, start, stop, cur, tokens, heads>>
    /\ UNCHANGED notTokVars

\* the consumer calls next() again and i < n: back to the head of the loop
TokResume ==
    /\ tpc = "yielded" /\ cur < stop
    /\ tpc' = "loop"
    /\ UNCHANGED <<buf, start, stop, cur, tokens, heads>>
    /\ UNCHANGED notTokVars

\* how a stream that is run to its end ends
EndOfStep(step) == IF step.kind = "token" THEN "stopped" ELSE step.kind

RECURSIVE tok_stream(_, _, _)
\* list(tok_stream(b, start, stop)): the tokens of a fresh stream run to its
\* end, and how it ended ("stopped", or the error that left the generator)
tok_stream(b, i, n) ==
    IF ~LoopContinues(i, n) THEN [toks |-> <<>>, end |-> "stopped"]
    ELSE LET step == IF i >= Len(b) THEN Raise("IndexError") ELSE TokStep(b, i)
         IN  IF step.kind = "skip" THEN tok_stream(b, step.next, n)
             ELSE IF step.kind # "token" THEN [toks |-> <<>>, end |-> step.kind]
             ELSE IF step.next >= n THEN [toks |-> step.tok, end |-> "stopped"]
             ELSE LET rest == tok_stream(b, step.next, n)
                  IN  [toks |-> step.tok \o rest.toks, end |-> rest.end]

----------------------------------------------------------------------------
(* Inputs of tok_stream *)

\* 0x00 and 'a' (97) are malformed inline lengths, 0x2A is a prefix, 1 and 2 are
\* inline lengths, 2 is also the int32 marker, 0x81 a short-string marker
TokBytes == {0, 1, 2, 42, 97, 129}

\* whole tokens of each kind, prefixed headers with good and bad lengths
TokSamples ==
    { <<1, 97, 2, 255, 255, 255, 255, 1, 97, 16>>,
      <<1, 97, 3, 1, 0, 0, 0, 0, 0, 0, 128, 0, 0>>,
      <<1, 97, 8, 2, 0, 0, 0, 200, 129, 1, 97, 16>>,
      <<74, 1, 97, 16, 90, 0, 1, 97, 16, 0>>,
      <<106, 200, 1, 97, 143, 97, 0, 0>>,
      <<42, 106, 42, 1, 97, 16, 0, 0>>,
      <<0, 42, 0, 1, 97, 16, 0, 0>>,
      <<1, 97, 16, 1, 98, 129, 120, 42, 1, 99, 2, 5, 0, 0, 0, 1, 97, 16, 0>> }

TokBuffers ==
    UNION {[1..n -> TokBytes] : n \in 0..MaxTokLen} \cup TokSamples

PatchIdle ==
    /\ jsb_file = <<>> /\ offsets = <<>>
    /\ json = [kind |-> "none", items |-> <<>>]
    /\ origin = "none"
    /\ jsb_data = <<>>
    /\ pc = "off"
    /\ ei = 1 /\ li = 1
    /\ warnings = <<>> /\ trail = <<>>
    /\ run = 0
    /\ before = <<>> /\ original = <<>>
    /\ CheckIdle

\* tok_stream(buf, start, stop) has been created: i, n = start, stop
TokInit ==
    /\ buf \in TokBuffers
    /\ start \in 0..Len(buf)
    /\ stop \in start..Len(buf)
    /\ cur = start
    /\ tpc = "loop"
    /\ tokens = <<>> /\ heads = <<>>
    /\ PatchIdle /\ ParseIdle

TokNext ==
    \/ TokStop
    \/ TokSkip
    \/ TokRaise
    \/ TokYield
    \/ TokBreak
    \/ TokResume

TokSpec == TokInit /\ [][TokNext]_vars

----------------------------------------------------------------------------
(* Properties of tok_stream *)

\* the loop is at its head and goes on to read a key header at cur
ReadsHeader == tpc = "loop" /\ cur + 2 < stop

\* the header at cur is an inline length byte that is 0 or greater than 96
InlineMalformedHere ==
    /\ ReadsHeader
    /\ At(buf, cur) \notin KeyPrefixes
    /\ (At(buf, cur) = 0 \/ At(buf, cur) > 96)

\* the header at cur is a prefix byte followed by a length byte that is 0 or
\* greater than 96
PrefixMalformedHere ==
    /\ ReadsHeader
    /\ At(buf, cur) \in KeyPrefixes
    /\ (At(buf, cur + 1) = 0 \/ At(buf, cur + 1) > 96)

\* C8 as written: on a malformed key header, in either encoding, tok_stream
\* raises nothing, advances exactly one byte from the start of the header and
\* scans on from there.
C8_SkipOneByteAlways ==
    [][(InlineMalformedHere \/ PrefixMalformedHere) =>
          (cur' = cur + 1 /\ tpc' = "loop" /\ tokens' = tokens)]_vars

\* C8 (amended): on a malformed key header tok_stream raises nothing, yields
\* nothing and scans on; it advances one byte from the start of the header for
\* an inline length byte, and two bytes (the prefix and the length byte) for a
\* prefixed header.
C8_SkipMalformedHeader ==
    /\ [][InlineMalformedHere =>
            (cur' = cur + 1 /\ tpc' = "loop" /\ tokens' = tokens)]_vars
    /\ [][PrefixMalformedHere =>
            (cur' = cur + 2 /\ tpc' = "loop" /\ tokens' = tokens)]_vars

\* a malformed inline header and a malformed prefixed header were skipped, and
\* a token was read after them
C8_Witness ==
    \E a, b, c \in 1..Len(heads) :
        /\ a < c /\ b < c
        /\ heads[a].kind = "skip" /\ heads[a].next = heads[a].at + 1
        /\ heads[b].kind = "skip" /\ heads[b].next = heads[b].at + 2
        /\ heads[c].kind = "token"

\* C9 as written: the reader stops only when its cursor is >= stop or fewer
\* than 2 bytes remain before stop.
C9_StopsBelowTwo ==
    tpc = "stopped" => (cur >= stop \/ stop - cur < 2)

\* C9 (amended): the reader stops exactly when fewer than 3 bytes remain
\* before stop: with stop - i >= 3 at the head of the loop it reads a key header
\* at i, with stop - i < 3 it reads nothing more and is exhausted.
C9_StopsBelowThree ==
    /\ [](tpc = "stopped" => stop - cur < 3)
    /\ [](\A k \in 1..Len(heads) : stop - heads[k].at >= 3)
    /\ [][(tpc = "loop" /\ stop - cur >= 3) =>
            (Len(heads') = Len(heads) + 1 /\ heads'[Len(heads')].at = cur)]_vars
    /\ [][(tpc = "loop" /\ stop - cur < 3) =>
            (heads' = heads /\ tokens' = tokens /\ tpc' = "stopped")]_vars

\* the reader stopped with exactly 2 bytes left before stop, after an iteration
C9_Witness ==
    tpc = "stopped" /\ stop - cur = 2 /\ heads # <<>>

\* C10: every iteration that does not raise moves the cursor forward, each
\* iteration starts where the one before ended, the number of iterations is at
\* most stop - start, and the loop always has a next step until it has ended.
C10_Terminates ==
    /\ Len(heads) <= stop - start
    /\ \A k \in 1..Len(heads) :
          /\ heads[k].kind \in {"skip", "token"} => heads[k].next > heads[k].at
          /\ k < Len(heads) => heads[k + 1].at = heads[k].next
          /\ k = 1 => heads[k].at = start
    /\ tpc \in {"loop", "yielded"} => ENABLED TokNext

\* a stream that skipped a malformed header and yielded a token has ended
C10_Witness ==
    /\ tpc = "stopped"
    /\ \E a, b \in 1..Len(heads) : heads[a].kind = "skip" /\ heads[b].kind = "token"

\* the heads of the iterations that yielded a token, in order
TokenHeads == SelectSeq(heads, LAMBDA h : h.kind = "token")

\* the documented kind of a value marker
MarkerKind(vmark) ==
    IF vmark = 2 THEN "i32"
    ELSE IF vmark = 3 THEN "i64"
    ELSE IF vmark = 8 \/ (vmark >= 128 /\ vmark <= 143) THEN "str"
    ELSE "ctl"

\* the number of bytes the documented value of the marker at mp takes after it
ValueWidth(b, mp) ==
    LET vmark == At(b, mp)
    IN  IF vmark = 2 THEN 4
        ELSE IF vmark = 3 THEN 8
        ELSE IF vmark = 8
        THEN 4 + At(b, mp + 1) + 256 * At(b, mp + 2) + 65536 * At(b, mp + 3)
               + 16777216 * At(b, mp + 4)
        ELSE IF vmark >= 128 /\ vmark <= 143 THEN vmark % 16
        ELSE 0

\* where the key text of the header at position at starts, and its length
KeyStartOf(b, at) == IF At(b, at) \in KeyPrefixes THEN at + 2 ELSE at + 1
KeyLenOf(b, at) == IF At(b, at) \in KeyPrefixes THEN At(b, at + 1) ELSE At(b, at)

\* C11 as written: the reader never ends in an index or unpack error and never
\* yields a token whose cursor is greater than stop.  The code breaks it when a
\* key or a value reaches past stop.
C11_StaysInRange ==
    /\ tpc # "raised"
    /\ \A k \in 1..Len(tokens) : tokens[k].cursor <= stop

\* the header at cur is the length byte L and the iteration reads it as an
\* inline length: it is not skipped, it raises only when the marker lies past
\* the buffer, and a token has the L bytes after the length byte as key and the
\* byte after them as marker
InlineRead(L) ==
    LET mp == cur + 1 + L
    IN  /\ Len(heads') = Len(heads) + 1
        /\ heads'[Len(heads')].at = cur
        /\ heads'[Len(heads')].kind # "skip"
        /\ heads'[Len(heads')].kind = "IndexError" <=> mp >= Len(buf)
        /\ heads'[Len(heads')].kind = "token" =>
              /\ Len(tokens') = Len(tokens) + 1
              /\ tokens'[Len(tokens')].key = utf8_replace(Slice(buf, cur + 1, mp))
              /\ tokens'[Len(tokens')].typ = MarkerKind(At(buf, mp))
              /\ tokens'[Len(tokens')].cursor = mp + 1 + ValueWidth(buf, mp)

\* C12 as written: every byte 1..96 at a key-header position is read as an
\* inline length.
C12_InlineLengthAlways ==
    [][(ReadsHeader /\ At(buf, cur) \in 1..96) => InlineRead(At(buf, cur))]_vars

\* C12 (amended): every byte 1..96 at a key-header position other than the
\* prefix bytes 0x2A, 0x4A and 0x5A is read as an inline length: the key text is
\* the L bytes after it and the value marker is the byte after them.
C12_InlineLength ==
    [][(ReadsHeader /\ At(buf, cur) \in (1..96) \ KeyPrefixes)
          => InlineRead(At(buf, cur))]_vars

\* a token with a 2-byte key was read from an inline header
C12_Witness ==
    \E k \in 1..Len(tokens) :
        /\ Len(TokenHeads) = Len(tokens)
        /\ At(buf, TokenHeads[k].at) = 2
        /\ tokens[k].key = Slice(buf, TokenHeads[k].at + 1, TokenHeads[k].at + 3)

\* C13: the cursor of every token is the offset after its value (the offset
\* after the marker for a control token), every token starts at or after the
\* cursor of the one before, and the cursors are strictly increasing.
C13_CursorAfterValue ==
    /\ Len(TokenHeads) = Len(tokens)
    /\ \A k \in 1..Len(tokens) :
          LET mp == KeyStartOf(buf, TokenHeads[k].at) + KeyLenOf(buf, TokenHeads[k].at)
          IN  /\ tokens[k].cursor = mp + 1 + ValueWidth(buf, mp)
              /\ tokens[k].typ = "ctl" => tokens[k].cursor = mp + 1
              /\ k > 1 => /\ tokens[k - 1].cursor <= TokenHeads[k].at
                          /\ tokens[k - 1].cursor < tokens[k].cursor

\* a stream yielded a control token after a token with a value
C13_Witness ==
    \E j, k \in 1..Len(tokens) :
        j < k /\ tokens[j].typ # "ctl" /\ tokens[k].typ = "ctl"

\* how the stream of the current state ended
StreamEnd == IF tpc = "raised" THEN heads[Len(heads)].kind ELSE "stopped"

\* C14: a fresh stream created at the cursor of any yielded token yields
\* exactly the tokens the original stream yielded after that token, and ends as
\* the original ended.
C14_Restartable ==
    tpc \in {"stopped", "raised"} =>
        \A k \in 1..Len(tokens) :
            tok_stream(buf, tokens[k].cursor, stop)
                = [toks |-> SubSeq(tokens, k + 1, Len(tokens)), end |-> StreamEnd]

\* a stream yielded three tokens: a fresh stream from the first has two to yield
C14_Witness ==
    tpc = "stopped" /\ Len(tokens) >= 3 /\ tokens[1].cursor + 2 < stop

\* the bytes at p and p + 1 as a little-endian 16-bit number
LE16(b, p) == At(b, p) + 256 * At(b, p + 1)

\* C15: the kind, value and cursor of every token follow from its marker as
\* documented: 0x02 an i32 from 4 bytes, 0x03 an i64 from 8 bytes, 0x08 a
\* string after a 4-byte unsigned length, 0x80-0x8F a string of marker & 0x0F
\* bytes, any other marker a control token that takes no byte after it.
C15_MarkerClasses ==
    /\ Len(TokenHeads) = Len(tokens)
    /\ \A k \in 1..Len(tokens) :
          LET mp == KeyStartOf(buf, TokenHeads[k].at) + KeyLenOf(buf, TokenHeads[k].at)
              vmark == At(buf, mp)
              t == tokens[k]
              top(h) == IF h >= 32768 THEN h - 65536 ELSE h
          IN  /\ vmark = 2 =>
                    /\ t.typ = "i32" /\ t.cursor = mp + 5
                    /\ t.val = << LE16(buf, mp + 1), top(LE16(buf, mp + 3)) >>
              /\ vmark = 3 =>
                    /\ t.typ = "i64" /\ t.cursor = mp + 9
                    /\ t.val = << LE16(buf, mp + 1), LE16(buf, mp + 3),
                                  LE16(buf, mp + 5), top(LE16(buf, mp + 7)) >>
              /\ vmark = 8 =>
                    LET slen == LE16(buf, mp + 1) + 65536 * LE16(buf, mp + 3)
                    IN  /\ t.typ = "str" /\ t.cursor = mp + 5 + slen
                        /\ t.val = utf8_replace(Slice(buf, mp + 5, mp + 5 + slen))
              /\ (vmark >= 128 /\ vmark <= 143) =>
                    /\ t.typ = "str" /\ t.cursor = mp + 1 + (vmark % 16)
                    /\ t.val = utf8_replace(Slice(buf, mp + 1, mp + 1 + (vmark % 16)))
              /\ (vmark \notin {2, 3, 8} /\ ~(vmark >= 128 /\ vmark <= 143)) =>
                    /\ t.typ = "ctl" /\ t.cursor = mp + 1
                    /\ t.val = ctl_text(vmark)

\* a negative i32 and a control token were yielded
C15_Witness ==
    \E j, k \in 1..Len(tokens) :
        /\ tokens[j].typ = "i32" /\ tokens[j].val[2] < 0
        /\ tokens[k].typ = "ctl"

----------------------------------------------------------------------------
(* src/player_ratings_decoder.py: expect, body_start, parse_expected_score *)

\* b"expected_score_data", and the keys "name", "negative_multiplier" and
\* "positive_multiplier" as code points
ExpectedScoreKey ==
    <<101, 120, 112, 101, 99, 116, 101, 100, 95, 115, 99, 111, 114, 101, 95,
      100, 97, 116, 97>>
NameKey == <<110, 97, 109, 101>>
NegativeKey ==
    <<110, 101, 103, 97, 116, 105, 118, 101, 95, 109, 117, 108, 116, 105, 112,
      108, 105, 101, 114>>
PositiveKey ==
    <<112, 111, 115, 105, 116, 105, 118, 101, 95, 109, 117, 108, 116, 105, 112,
      108, 105, 101, 114>>

\* a loop over one row less (range(10))
ScoreRowsTen == 11 - 1

\* for row in range(11)
ScoreRows == 11

RECURSIVE NextToken(_, _, _)
\* next(ts) for a generator tok_stream(b, ., n) whose cursor is i: the loop runs
\* until it yields, raises or ends (StopIteration)
NextToken(b, i, n) ==
    IF ~LoopContinues(i, n) THEN [kind |-> "StopIteration", next |-> i, tok |-> <<>>]
    ELSE LET step == IF i >= Len(b) THEN Raise("IndexError") ELSE TokStep(b, i)
         IN  IF step.kind = "skip" THEN NextToken(b, step.next, n) ELSE step

Met(st, tok, next) == [st |-> st, tok |-> tok, next |-> next]

\* an expect that compares the key only
expect_key_only(r, wanted_key, wanted_typ) ==
    IF r.kind = "StopIteration" THEN Met("EOF", <<>>, r.next)
    ELSE IF r.kind # "token" THEN Met(r.kind, <<>>, r.next)
    ELSE IF r.tok[1].key # wanted_key
    THEN Met("mismatch", r.tok, r.next)
    ELSE Met("ok", r.tok, r.next)

\* expect(ts, wanted_key, wanted_typ, ctx, buf) once next(ts) has given r;
\* wanted_typ is the set of the allowed kinds.  "ok" returns (tok.val,
\* tok.cursor); "EOF" and "mismatch" are its RuntimeErrors, the other outcomes
\* are the errors that leave tok_stream
expect(r, wanted_key, wanted_typ) ==
    IF r.kind = "StopIteration" THEN Met("EOF", <<>>, r.next)
    ELSE IF r.kind # "token" THEN Met(r.kind, <<>>, r.next)
    ELSE IF r.tok[1].key # wanted_key \/ r.tok[1].typ \notin wanted_typ
    THEN Met("mismatch", r.tok, r.next)
    ELSE Met("ok", r.tok, r.next)

\* body_start(buf, anchor, key)
body_start(b, anchor, key) ==
    IF Slice(b, anchor, anchor + Len(key)) # key
    THEN [st |-> "ValueError", body |-> 0]
    ELSE IF anchor + Len(key) >= Len(b)
    THEN [st |-> "IndexError", body |-> 0]
    ELSE IF At(b, anchor + Len(key)) \notin {201, 153}
    THEN [st |-> "ValueError", body |-> 0]
    ELSE [st |-> "ok", body |-> anchor + Len(key) + 1]

Expected_score_object(n, negative, positive) ==
    [name |-> n, negative_multiplier |-> negative, positive_multiplier |-> positive]

\* name and ord(name[-1]) < 32
EndsInControl(n) == n # <<>> /\ n[Len(n)] < 32

\* name[:-1]
DropLast(n) == SubSeq(n, 1, Len(n) - 1)

\* the expect call the loop body is in, after its next(ts)
CurExpect ==
    IF ppc = "name" THEN expect(got[1], NameKey, {"str"})
    ELSE IF ppc = "neg" THEN expect(got[1], NegativeKey, {"i32", "i64"})
    ELSE expect(got[1], PositiveKey, {"i32", "i64"})

Seen(e) == [row |-> row, want |-> ppc, at |-> ts, st |-> e.st, tok |-> e.tok]

scoreLocals == <<row, name, neg, triplets, resyncs>>

\* body_start fails: the call raises before a stream exists
ScoreStartFail ==
    /\ ppc = "call"
    /\ body_start(buf, start, ExpectedScoreKey).st # "ok"
    /\ ppc' = "raised"
    /\ UNCHANGED <<verbose, ts, got, result, seen, scoreLocals>>
    /\ UNCHANGED notScoreVars

\* ts = tok_stream(buf, body, stop); triplets = []
ScoreStart ==
    /\ ppc = "call"
    /\ body_start(buf, start, ExpectedScoreKey).st = "ok"
    /\ ts' = body_start(buf, start, ExpectedScoreKey).body
    /\ ppc' = "name"
    /\ UNCHANGED <<verbose, got, result, seen, scoreLocals>>
    /\ UNCHANGED notScoreVars

\* expect calls next(ts): the generator runs to its next yield, error or end
ExpectFetch ==
    /\ ppc \in {"name", "neg", "pos"} /\ got = <<>>
    /\ got' = << NextToken(buf, ts, stop) >>
    /\ UNCHANGED <<ppc, verbose, ts, result, seen, scoreLocals>>
    /\ UNCHANGED notScoreVars

\* the expect call raises: RuntimeError, or the error that left tok_stream
ExpectFail ==
    /\ ppc \in {"name", "neg", "pos"} /\ got # <<>>
    /\ CurExpect.st # "ok"
    /\ ppc' = "raised"
    /\ got' = <<>>
    /\ seen' = Append(seen, Seen(CurExpect))
    /\ UNCHANGED <<verbose, ts, result, scoreLocals>>
    /\ UNCHANGED notScoreVars

\* name, n_pos = expect(ts, "name", "str", ...) and the name is kept as it is
ExpectName ==
    /\ ppc = "name" /\ got # <<>>
    /\ CurExpect.st = "ok"
    /\ ~EndsInControl(got[1].tok[1].val)
    /\ name' = got[1].tok[1].val
    /\ ts' = got[1].next
    /\ ppc' = "neg"
    /\ got' = <<>>
    /\ seen' = Append(seen, Seen(CurExpect))
    /\ UNCHANGED <<verbose, row, neg, triplets, result, resyncs>>
    /\ UNCHANGED notScoreVars

\* the name ends in a control character: the name is trimmed inside
\* "if verbose:", and ts = tok_stream(buf, n_pos - 1, stop)
ExpectNameStray ==
    /\ ppc = "name" /\ got # <<>>
    /\ CurExpect.st = "ok"
    /\ EndsInControl(got[1].tok[1].val)
    /\ name' = IF verbose THEN DropLast(got[1].tok[1].val) ELSE got[1].tok[1].val
    /\ ts' = got[1].tok[1].cursor - 1
    /\ resyncs' = Append(resyncs, [row |-> row, at |-> got[1].tok[1].cursor - 1])
    /\ ppc' = "neg"
    /\ got' = <<>>
    /\ seen' = Append(seen, Seen(CurExpect))
    /\ UNCHANGED <<verbose, row, neg, triplets, result>>
    /\ UNCHANGED notScoreVars

\* neg, neg_pos = expect(ts, "negative_multiplier", ("i32", "i64"), ...)
ExpectNeg ==
    /\ ppc = "neg" /\ got # <<>>
    /\ CurExpect.st = "ok"
    /\ neg' = got[1].tok[1].val
    /\ ts' = got[1].next
    /\ ppc' = "pos"
    /\ got' = <<>>
    /\ seen' = Append(seen, Seen(CurExpect))
    /\ UNCHANGED <<verbose, row, name, triplets, result, resyncs>>
    /\ UNCHANGED notScoreVars

\* pos, pos_pos = expect(ts, "positive_multiplier", ("i32", "i64"), ...);
\* triplets.append(...); after the last row: return triplets
ExpectPos ==
    /\ ppc = "pos" /\ got # <<>>
    /\ CurExpect.st = "ok"
    /\ triplets' = Append(triplets,
                          Expected_score_object(name, neg, got[1].tok[1].val))
    /\ ts' = got[1].next
    /\ row' = row + 1
    /\ ppc' = IF row + 1 < ScoreRows THEN "name" ELSE "returned"
    /\ result' = IF row + 1 < ScoreRows THEN result ELSE <<triplets'>>
    /\ got' = <<>>
    /\ seen' = Append(seen, Seen(CurExpect))
    /\ UNCHANGED <<verbose, name, neg, resyncs>>
    /\ UNCHANGED notScoreVars

----------------------------------------------------------------------------
(* Inputs of parse_expected_score *)

\* a key header with an inline length, and tokens as the file holds them
KeyHeader(key) == <<Len(key)>> \o key
ShortStr(key, text) == KeyHeader(key) \o <<128 + Len(text)>> \o text
Int32Tok(key, bytes4) == KeyHeader(key) \o <<2>> \o bytes4
Int64Tok(key, bytes8) == KeyHeader(key) \o <<3>> \o bytes8

Neg32 == Int32Tok(NegativeKey, <<254, 255, 255, 255>>)
Pos32 == Int32Tok(PositiveKey, <<3, 0, 0, 0>>)

\* the rows: a plain row, one with an int64, one with an empty name, one whose
\* name marker takes the length byte of the next key with it (0x82 "A" 0x13),
\* the same followed by a string or by a token that does not realign, and rows
\* with a wrong key or kind
RowKinds ==
    {"good", "wide", "empty", "stray", "strayKind", "strayLost",
     "badKey", "badKind", "noName"}

RowBytes(kind) ==
    CASE kind = "good" -> ShortStr(NameKey, <<65>>) \o Neg32 \o Pos32
      [] kind = "wide" ->
            ShortStr(NameKey, <<65>>)
            \o Int64Tok(NegativeKey, <<0, 0, 0, 128, 255, 255, 255, 255>>) \o Pos32
      [] kind = "empty" -> ShortStr(NameKey, <<>>) \o Neg32 \o Pos32
      [] kind = "stray" -> KeyHeader(NameKey) \o <<130, 65>> \o Neg32 \o Pos32
      [] kind = "strayKind" ->
            KeyHeader(NameKey) \o <<130, 65>> \o ShortStr(NegativeKey, <<66>>) \o Pos32
      [] kind = "strayLost" -> KeyHeader(NameKey) \o <<130, 65, 1>> \o Neg32 \o Pos32
      [] kind = "badKey" ->
            ShortStr(NameKey, <<65>>) \o Int32Tok(PositiveKey, <<3, 0, 0, 0>>) \o Pos32
      [] kind = "badKind" ->
            ShortStr(NameKey, <<65>>) \o Neg32 \o ShortStr(PositiveKey, <<66>>)
      [] OTHER -> Neg32 \o Pos32

RECURSIVE RowsBytes(_, _)
RowsBytes(kinds, k) ==
    IF k > Len(kinds) THEN <<>> ELSE RowBytes(kinds[k]) \o RowsBytes(kinds, k + 1)

\* the section: key text, container marker, 11 rows
ScoreSection(marker, kinds) == ExpectedScoreKey \o <<marker>> \o RowsBytes(kinds, 1)

\* 11 rows of one base kind, with one row of another kind
RowLayouts ==
    { [r \in 1..11 |-> IF r = k THEN odd ELSE base] :
        k \in 1..11, odd \in RowKinds, base \in {"good", "stray"} }

PlainSection == ScoreSection(201, [r \in 1..11 |-> "good"])

ScoreCall(b, at, n) == [buf |-> b, start |-> at, stop |-> n]

\* well-formed and damaged sections; sections cut short in the buffer or by
\* stop; other container markers; an anchor that does not point at the key
ScoreCalls ==
    { ScoreCall(ScoreSection(201, l), 0, Len(ScoreSection(201, l))) : l \in RowLayouts }
    \cup { ScoreCall(Slice(PlainSection, 0, Len(PlainSection) - cut), 0,
                     Len(PlainSection) - cut) : cut \in {1, 5, 25} }
    \cup { ScoreCall(PlainSection, 0, Len(PlainSection) - 25),
           ScoreCall(PlainSection, 1, Len(PlainSection)),
           ScoreCall(ExpectedScoreKey, 0, Len(ExpectedScoreKey)) }
    \cup { ScoreCall(ScoreSection(m, [r \in 1..11 |-> "good"]), 0, Len(PlainSection))
             : m \in {153, 9} }

\* parse_expected_score(buf, start, stop, verbose) has been called
ScoreInit ==
    /\ \E c \in ScoreCalls : buf = c.buf /\ start = c.start /\ stop = c.stop
    /\ verbose \in BOOLEAN
    /\ cur = 0 /\ tpc = "off" /\ tokens = <<>> /\ heads = <<>>
    /\ ppc = "call"
    /\ ts = 0 /\ got = <<>> /\ row = 0
    /\ name = <<>> /\ neg = <<>> /\ triplets = <<>>
    /\ result = <<>> /\ resyncs = <<>> /\ seen = <<>>
    /\ RoleIdle /\ ValueIdle /\ LookupIdle /\ SeasonIdle
    /\ PatchIdle

ScoreNext ==
    \/ ScoreStartFail
    \/ ScoreStart
    \/ ExpectFetch
    \/ ExpectFail
    \/ ExpectName
    \/ ExpectNameStray
    \/ ExpectNeg
    \/ ExpectPos

ScoreSpec == ScoreInit /\ [][ScoreNext]_vars

----------------------------------------------------------------------------
(* Properties of parse_expected_score *)

\* next(ts) gave expect a token with this key and one of these kinds
GotToken(key, kinds) ==
    /\ got # <<>> /\ got[1].kind = "token"
    /\ got[1].tok[1].key = key /\ got[1].tok[1].typ \in kinds

\* the name token expect has just fetched ends in a character below 32
StrayNameHere ==
    ppc = "name" /\ GotToken(NameKey, {"str"}) /\ EndsInControl(got[1].tok[1].val)

\* C16 as written: whenever the decoded name ends in a character below 32, the
\* parser drops that character from the name of the row and restarts the stream
\* one byte before the cursor after the name token, whatever verbose is.  The
\* code trims only when verbose is set.
C16_TrimAndRestart ==
    [][StrayNameHere =>
          /\ name' = DropLast(got[1].tok[1].val)
          /\ ts' = got[1].tok[1].cursor - 1]_vars

\* a stream was created inside the loop for the current row
RestartedThisRow == resyncs # <<>> /\ resyncs[Len(resyncs)].row = row

\* the token expect has fetched is not the one the parser wants next
WrongTokenHere ==
    /\ ppc \in {"name", "neg", "pos"} /\ got # <<>>
    /\ \/ ppc = "name" /\ ~GotToken(NameKey, {"str"})
       \/ ppc = "neg" /\ ~GotToken(NegativeKey, {"i32", "i64"})
       \/ ppc = "pos" /\ ~GotToken(PositiveKey, {"i32", "i64"})

\* C17: the parser restarts the stream at most once per row; when the token
\* read after a restart is not the expected one the call raises, without
\* another restart; a call makes at most 33 expect calls.
C17_OneRestart ==
    /\ [](\A i, j \in 1..Len(resyncs) : i < j => resyncs[i].row < resyncs[j].row)
    /\ [][(RestartedThisRow /\ WrongTokenHere) =>
            (ppc' = "raised" /\ resyncs' = resyncs /\ ts' = ts /\ result' = <<>>)]_vars
    /\ [](Len(seen) <= 33 /\ Len(resyncs) <= 11)

\* the call raised on the token it read after a restart
C17_Witness ==
    /\ ppc = "raised" /\ RestartedThisRow
    /\ seen # <<>> /\ seen[Len(seen)].want = "neg" /\ seen[Len(seen)].st = "mismatch"
    /\ seen[Len(seen)].at = resyncs[Len(resyncs)].at

\* row r of the returned list trip was built from the expect calls 3r - 2, 3r - 1 and 3r
RowFromTokens(trip, r) ==
    LET n == seen[3 * r - 2]
        m == seen[3 * r - 1]
        q == seen[3 * r]
    IN  /\ n.st = "ok" /\ n.tok[1].key = NameKey /\ n.tok[1].typ = "str"
        /\ m.st = "ok" /\ m.tok[1].key = NegativeKey /\ m.tok[1].typ \in {"i32", "i64"}
        /\ q.st = "ok" /\ q.tok[1].key = PositiveKey /\ q.tok[1].typ \in {"i32", "i64"}
        /\ trip[r].name \in {n.tok[1].val, DropLast(n.tok[1].val)}
        /\ trip[r].negative_multiplier = m.tok[1].val
        /\ trip[r].positive_multiplier = q.tok[1].val

\* C18: the call returns 11 rows, each built from a name, a negative_multiplier
\* and a positive_multiplier token read in that order, or it raises; it raises
\* at the first token that is not the expected one, and then returns nothing.
C18_AllOrNothing ==
    /\ [](result # <<>> =>
            /\ ppc = "returned"
            /\ Len(result[1]) = 11 /\ Len(seen) = 33
            /\ \A r \in 1..11 : RowFromTokens(result[1], r))
    /\ [](ppc = "returned" => result # <<>>)
    /\ [][WrongTokenHere => (ppc' = "raised" /\ result' = <<>>)]_vars
    /\ [][ppc = "raised" => (ppc' = "raised" /\ result' = <<>>)]_vars

\* 11 rows were returned, one of them with an int64 and one after a restart
C18_Witness ==
    /\ ppc = "returned" /\ result # <<>> /\ resyncs # <<>>
    /\ \E r \in 1..Len(result[1]) : Len(result[1][r].negative_multiplier) = 4

----------------------------------------------------------------------------
(* src/player_ratings_decoder.py: _read_varint, parse_role_data *)

\* KEY = b"role_data"
RoleDataKey == <<114, 111, 108, 101, 95, 100, 97, 116, 97>>

\* NAME_S = b":\x04name"
NAME_S == <<58, 4, 110, 97, 109, 101>>

\* VALUE_S = b"\x05value"
VALUE_S == <<5, 118, 97, 108, 117, 101>>

\* a block that is sealed one coefficient late
BlockSizeLate == 52 + 1

\* the number of coefficients that seals one block
BlockSize == 52

\* a Python int of small magnitude as its two halves, low first (as i32 gives)
Halves(v) == << v % 65536, v \div 65536 >>

\* val = (res >> 1) ^ -(res & 1)
ZigZagDecode(res) == IF res % 2 = 0 THEN res \div 2 ELSE -((res + 1) \div 2)

RECURSIVE VarintScan(_, _, _, _)
\* the while loop of _read_varint: res |= (b & 0x7F) << shift, mult = 2^shift
VarintScan(d, p, res, mult) ==
    IF p >= Len(d) THEN [st |-> "IndexError", res |-> res, next |-> p]
    ELSE LET b == d[p + 1]
             r == res + (b % 128) * mult
         IN  IF b < 128 THEN [st |-> "ok", res |-> r, next |-> p + 1]
             ELSE VarintScan(d, p + 1, r, mult * 128)

\* _read_varint(buf_, p_): the value and the offset after its last byte
read_varint(d, p) ==
    LET sc == VarintScan(d, p, 0, 1)
    IN  IF sc.st # "ok"
        THEN [st |-> sc.st, value |-> <<>>, next |-> sc.next, tag_desc |-> "var"]
        ELSE [st |-> "ok", value |-> Halves(ZigZagDecode(sc.res)),
              next |-> sc.next, tag_desc |-> "var"]

\* the value branch of the scan: tag = data[p], then INT32, INT64, tiny
\* positive, tiny negative, or a ZigZag varint
role_value(d, p) ==
    IF p >= Len(d)
    THEN [st |-> "IndexError", value |-> <<>>, next |-> p, tag_desc |-> ""]
    ELSE LET tag == d[p + 1]
         IN  IF tag = 2
             THEN IF p + 5 > Len(d)
                  THEN [st |-> "struct.error", value |-> <<>>, next |-> p,
                        tag_desc |-> "i32"]
                  ELSE [st |-> "ok", value |-> i32(SubSeq(d, p + 2, p + 5)),
                        next |-> p + 5, tag_desc |-> "i32"]
             ELSE IF tag = 3
             THEN IF p + 9 > Len(d)
                  THEN [st |-> "struct.error", value |-> <<>>, next |-> p,
                        tag_desc |-> "i64"]
                  ELSE [st |-> "ok", value |-> i64(SubSeq(d, p + 2, p + 9)),
                        next |-> p + 9, tag_desc |-> "i64"]
             ELSE IF 128 <= tag /\ tag <= 191
             THEN [st |-> "ok", value |-> Halves(tag - 128), next |-> p + 1,
                   tag_desc |-> "tiny+"]
             ELSE IF 192 <= tag /\ tag <= 255
             THEN [st |-> "ok", value |-> Halves(-(tag - 192)), next |-> p + 1,
                   tag_desc |-> "tiny-"]
             ELSE read_varint(d, p)

RECURSIVE StripControl(_)
\* while raw and raw[0] < 32: raw = raw[1:]
StripControl(raw) ==
    IF raw # <<>> /\ raw[1] < 32 THEN StripControl(Tail(raw)) ELSE raw

\* _clean_label(raw): the label text as code points
clean_label(raw) ==
    IF raw = <<>> THEN <<>>
    ELSE LET tag == raw[1]
         IN  IF tag = 8 /\ Len(raw) >= 5
             THEN utf8_replace(SubSeq(raw, 6, Len(raw)))
             ELSE IF tag >= 128 \/ tag = 104
             THEN utf8_replace(Tail(raw))
             ELSE utf8_replace(StripControl(raw))

RECURSIVE FindIn(_, _, _, _)
\* the lowest offset in lo..hi where sub occurs in d, or -1; the range is
\* searched by halves, the lower half first
FindIn(d, sub, lo, hi) ==
    IF lo > hi THEN -1
    ELSE IF lo = hi
    THEN IF SubSeq(d, lo + 1, lo + Len(sub)) = sub THEN lo ELSE -1
    ELSE LET mid == (lo + hi) \div 2
             low == FindIn(d, sub, lo, mid)
         IN  IF low # -1 THEN low ELSE FindIn(d, sub, mid + 1, hi)

\* bytes.find(sub, from): the lowest offset >= from where sub occurs, or -1
Find(d, sub, from) == FindIn(d, sub, from, Len(d) - Len(sub))

\* Role_object(name, value)
Role_object(nm, value) == [name |-> nm, value |-> value]

\* locate body start: the key text, then the container marker
role_body(b, anchor) ==
    LET klen == Len(RoleDataKey)
    IN  IF Slice(b, anchor, anchor + klen) # RoleDataKey
        THEN [st |-> "RuntimeError", body |-> 0]
        ELSE IF anchor + klen >= Len(b)
        THEN [st |-> "IndexError", body |-> 0]
        ELSE LET marker == b[anchor + klen + 1]
             IN  IF marker \in {201, 153}
                 THEN [st |-> "ok", body |-> anchor + klen + 1]
                 ELSE IF marker = 9
                 THEN [st |-> "ok", body |-> anchor + klen + 5]
                 ELSE [st |-> "RuntimeError", body |-> 0]

\* one pass of the main scan over data from offset c, up to the append
RoleStep(d, c) ==
    LET npos == Find(d, NAME_S, c)
        lstart == npos + Len(NAME_S)
        vpos == Find(d, VALUE_S, lstart)
        p == vpos + Len(VALUE_S)
        v == role_value(d, p)
        stopped(why) == [st |-> why, name |-> <<>>, value |-> <<>>, next |-> c,
                         npos |-> npos, tag_desc |-> ""]
    IN  IF npos = -1 THEN stopped("done")
        ELSE IF vpos = -1 THEN stopped("novalue")
        ELSE IF v.st # "ok" THEN stopped(v.st)
        ELSE [st |-> "pair", name |-> clean_label(SubSeq(d, lstart + 1, vpos)),
              value |-> v.value, next |-> v.next, npos |-> npos,
              tag_desc |-> v.tag_desc]

\* data = buf[body:stop]
Data == Slice(buf, body, stop)

\* what the pass of the scan that is about to run does
CurRole == RoleStep(Data, scan)

roleScoreLocals == <<ts, got, row, name, neg, triplets, resyncs, seen>>
notRoleVars == <<patchVars, tokVars, roleScoreLocals, valueVars, lookupVars, seasonVars>>

\* the key text is missing, the marker is unknown or past the buffer: raise
RoleStartFail ==
    /\ ppc = "call"
    /\ role_body(buf, start).st # "ok"
    /\ ppc' = "raised"
    /\ UNCHANGED <<verbose, result, roleVars>>
    /\ UNCHANGED notRoleVars

\* body found; blocks, coeffs = [], []; cur, blk_id = 0, 0
RoleStart ==
    /\ ppc = "call"
    /\ role_body(buf, start).st = "ok"
    /\ ppc' = "scan"
    /\ body' = role_body(buf, start).body
    /\ scan' = 0 /\ blk_id' = 0
    /\ coeffs' = <<>> /\ blocks' = <<>> /\ pairs' = <<>>
    /\ UNCHANGED <<verbose, result>>
    /\ UNCHANGED notRoleVars

\* no further name marker, or a name without a value marker: break, drop
\* the trailing fragment, return blocks
RoleBreak ==
    /\ ppc = "scan"
    /\ CurRole.st \in {"done", "novalue"}
    /\ ppc' = "returned"
    /\ result' = <<blocks>>
    /\ UNCHANGED <<verbose, roleVars>>
    /\ UNCHANGED notRoleVars

\* the value is cut short: data[p] or struct.unpack_from raises
RoleRaise ==
    /\ ppc = "scan"
    /\ CurRole.st \in {"IndexError", "struct.error"}
    /\ ppc' = "raised"
    /\ UNCHANGED <<verbose, result, roleVars>>
    /\ UNCHANGED notRoleVars

\* one name/value pair: append, seal a full block, advance; return when the
\* cursor reached stop
RolePair ==
    /\ ppc = "scan"
    /\ LET r == CurRole
           obj == Role_object(r.name, r.value)
           full == Len(coeffs) + 1 = BlockSize
           sealed == IF full THEN Append(blocks, Append(coeffs, obj)) ELSE blocks
       IN  /\ r.st = "pair"
           /\ pairs' = Append(pairs, obj)
           /\ coeffs' = IF full THEN <<>> ELSE Append(coeffs, obj)
           /\ blocks' = sealed
           /\ blk_id' = IF full THEN blk_id + 1 ELSE blk_id
           /\ scan' = r.next
           /\ IF body + r.next >= stop
              THEN ppc' = "returned" /\ result' = <<sealed>>
              ELSE ppc' = "scan" /\ result' = result
    /\ UNCHANGED <<verbose, body>>
    /\ UNCHANGED notRoleVars

(* Inputs of parse_role_data *)

\* the largest number of complete blocks in a generated section
MaxBlocks == 2

\* the label of the j-th generated pair: short, long, special 0x68, bare
\* with control bytes in front, empty
LabelBytes(j) ==
    CASE j % 5 = 0 -> <<129, 97 + (j % 26)>>
      [] j % 5 = 1 -> <<8, 2, 0, 0, 0, 98, 97 + (j % 26)>>
      [] j % 5 = 2 -> <<104, 97 + (j % 26)>>
      [] j % 5 = 3 -> <<1, 2, 97 + (j % 26)>>
      [] OTHER -> <<>>

\* the value of the j-th generated pair: tiny positive, tiny negative, INT32,
\* INT64, one-byte varint
ValueBytes(j) ==
    CASE j % 7 = 0 -> <<128 + (j % 64)>>
      [] j % 7 = 1 -> <<192 + (j % 64)>>
      [] j % 7 = 2 -> <<2, j % 256, 1, 0, 128>>
      [] j % 7 = 3 -> <<3, j % 256, 0, 0, 0, 0, 0, 255, 255>>
      [] j % 7 = 4 -> <<4 + (j % 124)>>
      [] j % 7 = 5 -> <<191>>
      [] OTHER -> <<255>>

\* one name/value pair as it lies in the file
PairBytes(j) == NAME_S \o LabelBytes(j) \o VALUE_S \o ValueBytes(j)

RECURSIVE PairsRange(_, _)
\* the pairs lo..hi one after the other
PairsRange(lo, hi) ==
    IF lo > hi THEN <<>>
    ELSE IF lo = hi THEN PairBytes(lo)
    ELSE LET mid == (lo + hi) \div 2
         IN  PairsRange(lo, mid) \o PairsRange(mid + 1, hi)

\* the first k generated pairs
PairsBytes(k) == PairsRange(1, k)

\* the container marker and what it carries before the body
ContainerBytes(m) == IF m = 9 THEN <<9, 0, 0, 0, 0>> ELSE <<m>>

\* what may follow the last complete pair of a section
RoleTails ==
    { <<>>,
      <<0, 0>>,
      NAME_S \o <<129, 113>>,
      NAME_S \o <<129, 113>> \o VALUE_S,
      NAME_S \o <<129, 113>> \o VALUE_S \o <<2, 1>>,
      NAME_S \o <<129, 113>> \o VALUE_S \o <<3, 1, 0, 0, 0>>,
      NAME_S \o <<129, 113>> \o VALUE_S \o <<130, 0>> }

\* the numbers of pairs of the generated sections: around each block boundary
PairCounts == { BlockSize * b + r : b \in 0..MaxBlocks, r \in {0, 1, BlockSize - 1} }

RoleCall(b, anchor, n) == [buf |-> b, start |-> anchor, stop |-> n]

RoleCalls ==
    LET sect(m, k, t) == RoleDataKey \o ContainerBytes(m) \o PairsBytes(k) \o t
    IN  UNION { UNION { { RoleCall(<<0>> \o sect(m, k, t), 1,
                                   Len(sect(m, k, t)) + 1 - c)
                            : c \in {0, 3} }
                          : t \in RoleTails }
                  : <<m, k>> \in {201, 153, 9} \X PairCounts }
        \cup { RoleCall(RoleDataKey \o <<7>> \o PairsBytes(1), 0, 40),
               RoleCall(RoleDataKey, 0, 9),
               RoleCall(<<0>> \o RoleDataKey \o <<201>> \o PairsBytes(1), 0, 30) }

\* parse_role_data(buf, start, stop, verbose) has been called
RoleInit ==
    /\ \E c \in RoleCalls : buf = c.buf /\ start = c.start /\ stop = c.stop
    /\ verbose \in BOOLEAN
    /\ cur = 0 /\ tpc = "off" /\ tokens = <<>> /\ heads = <<>>
    /\ ppc = "call" /\ result = <<>>
    /\ ScoreIdle /\ RoleIdle /\ ValueIdle /\ LookupIdle /\ SeasonIdle
    /\ PatchIdle

RoleNext ==
    \/ RoleStartFail
    \/ RoleStart
    \/ RoleBreak
    \/ RoleRaise
    \/ RolePair

RoleSpec == RoleInit /\ [][RoleNext]_vars

(* Inputs of parse_role_data that carry an encoded integer *)

\* the largest magnitude of the integers encoded, besides the large samples
MaxValue == 130

\* a tiny positive: marker 0x80 + v, for v in 0..63
TinyPositive(v) == <<128 + v>>

\* a tiny negative: marker 0xC0 + (-v), for v in -63..0
TinyNegative(v) == <<192 - v>>

\* the unsigned accumulator that ZigZag-decodes to v
ZigZagEncode(v) == IF v >= 0 THEN 2 * v ELSE -2 * v - 1

RECURSIVE VarintBytes(_)
\* 7 bits per byte, low bits first, bit 7 set on all but the last byte
VarintBytes(u) ==
    IF u < 128 THEN <<u>>
    ELSE <<128 + (u % 128)>> \o VarintBytes(u \div 128)

\* integers of several varint bytes, at the edges of two and three bytes
LargeValues == {8191, 8192, -8192, -8193, 1048575, -1048576}

\* the integers encoded: every one up to MaxValue in magnitude, which holds
\* 0, 127, -1, -64 and both ends of each tiny range, and the large samples
EncodedValues == (-MaxValue..MaxValue) \cup LargeValues

\* the encodings of v, each with its name
Encodings(v) ==
    { [enc |-> "var", bytes |-> VarintBytes(ZigZagEncode(v))] }
    \cup (IF 0 <= v /\ v <= 63
          THEN { [enc |-> "tiny+", bytes |-> TinyPositive(v)] } ELSE {})
    \cup (IF -63 <= v /\ v <= 0
          THEN { [enc |-> "tiny-", bytes |-> TinyNegative(v)] } ELSE {})

\* pair j of a block whose pair number at carries bs, the others tiny 0
ValuePair(j, at, bs) ==
    NAME_S \o <<129, 118>> \o VALUE_S \o (IF j = at THEN bs ELSE TinyPositive(0))

RECURSIVE ValuePairs(_, _, _, _)
ValuePairs(lo, hi, at, bs) ==
    IF lo > hi THEN <<>>
    ELSE IF lo = hi THEN ValuePair(lo, at, bs)
    ELSE LET mid == (lo + hi) \div 2
         IN  ValuePairs(lo, mid, at, bs) \o ValuePairs(mid + 1, hi, at, bs)

\* a role_data section of one block
ValueSection(at, bs) ==
    RoleDataKey \o ContainerBytes(201) \o ValuePairs(1, BlockSize, at, bs)

\* parse_role_data has been called on a block that carries an encoding of v
\* as the value of its first or of its last pair
ValueInit ==
    /\ \E v \in EncodedValues : \E e \in Encodings(v) : \E at \in {1, BlockSize} :
           /\ buf = ValueSection(at, e.bytes)
           /\ intended = <<[v |-> v, enc |-> e.enc, at |-> at]>>
    /\ start = 0 /\ stop = Len(buf)
    /\ verbose \in BOOLEAN
    /\ cur = 0 /\ tpc = "off" /\ tokens = <<>> /\ heads = <<>>
    /\ ppc = "call" /\ result = <<>>
    /\ ScoreIdle /\ RoleIdle /\ LookupIdle /\ SeasonIdle
    /\ PatchIdle

ValueNext ==
    \/ RoleStart
    \/ RoleBreak
    \/ RoleRaise
    \/ RolePair

ValueSpec == ValueInit /\ [][ValueNext]_vars

----------------------------------------------------------------------------
(* Properties of parse_role_data *)

\* C19: every block parse_role_data returns holds exactly 52 coefficients in
\* scan order; with k pairs decoded the result holds floor(k / 52) blocks,
\* block j being the pairs 52 (j - 1) + 1 .. 52 j, and the k mod 52 trailing
\* pairs are in no block
C19_BlocksOfFiftyTwo ==
    (ppc = "returned" /\ body > 0) =>
        LET res == result[1]
            k == Len(pairs)
        IN  /\ Len(res) = k \div 52
            /\ \A j \in 1..Len(res) :
                   /\ Len(res[j]) = 52
                   /\ \A i \in 1..52 : res[j][i] = pairs[52 * (j - 1) + i]

\* a call has returned two blocks and dropped a trailing fragment
C19_Witness ==
    /\ ppc = "returned" /\ body > 0
    /\ Len(result[1]) = 2
    /\ Len(pairs) % 52 > 0
    /\ coeffs # <<>>

\* C20: tiny and ZigZag-varint integers round-trip through the value decoder
\* of the scan: the pair that carries an encoding of v (tiny positive, tiny
\* negative or ZigZag varint, of one byte or more) is decoded, without an
\* exception, to the value v
C20_RoundTrip ==
    intended # <<>> =>
        LET w == intended[1]
        IN  /\ ppc # "raised"
            /\ ppc = "returned" => Len(pairs) >= w.at
            /\ Len(pairs) >= w.at => pairs[w.at].value = Halves(w.v)

----------------------------------------------------------------------------
(* src/player_ratings_decoder.py: parse_role_lookup *)

\* KEY = b"role_lookup_data"
RoleLookupKey ==
    <<114, 111, 108, 101, 95, 108, 111, 111, 107, 117, 112, 95, 100, 97, 116, 97>>

\* INDEX_SENT = b"\x05index"
INDEX_SENT == <<5, 105, 110, 100, 101, 120>>

\* ROLE_SENT = b"\x04role"
ROLE_SENT == <<4, 114, 111, 108, 101>>

\* struct.unpack_from("<I", d) of 4 bytes, as its halves, low first
uint32(bs) == << Half(bs, 1), Half(bs, 3) >>

\* struct.unpack_from("<Q", d) of 8 bytes, as its halves, low first
uint64(bs) == << Half(bs, 1), Half(bs, 3), Half(bs, 5), Half(bs, 7) >>

\* _tiny_nibble(tag): (tag & 0x7F) >> 4
tiny_nibble(tag) == (tag % 128) \div 16

\* unpack_from of width bytes at offset p of d, or struct.error when d is short
Unpack(d, p, width, conv(_)) ==
    IF p + width > Len(d)
    THEN [st |-> "struct.error", value |-> <<>>, next |-> p]
    ELSE [st |-> "ok", value |-> conv(SubSeq(d, p + 1, p + width)), next |-> p + width]

\* _read_int(d, p): the value and the offset after it
read_int(d, p) ==
    IF p >= Len(d) THEN [st |-> "IndexError", value |-> <<>>, next |-> p]
    ELSE LET tag == d[p + 1]
         IN  IF tag >= 128 /\ tag % 16 = 2
             THEN [st |-> "ok", value |-> Halves(tiny_nibble(tag)), next |-> p + 1]
             ELSE IF tag = 2 THEN Unpack(d, p + 1, 4, i32)
             ELSE IF tag = 3 THEN Unpack(d, p + 1, 8, i64)
             ELSE IF tag = 4 THEN Unpack(d, p + 1, 4, uint32)
             ELSE IF tag = 5 THEN Unpack(d, p + 1, 8, uint64)
             ELSE IF tag >= 128
             THEN [st |-> "ok", value |-> Halves(tag - 128), next |-> p + 1]
             ELSE [st |-> "ValueError", value |-> <<>>, next |-> p]

\* Role_lookup_object(index, role)
Role_lookup_object(index, role) == [index |-> index, role |-> role]

\* locate body start & determine declared length
lookup_body(b, anchor) ==
    LET klen == Len(RoleLookupKey)
        fail(why) == [st |-> why, declared |-> <<>>, body |-> 0]
    IN  IF Slice(b, anchor, anchor + klen) # RoleLookupKey THEN fail("RuntimeError")
        ELSE IF anchor + klen >= Len(b) THEN fail("IndexError")
        ELSE LET ctag == b[anchor + klen + 1]
             IN  IF ctag \in {201, 153}
                 THEN [st |-> "ok", declared |-> <<>>, body |-> anchor + klen + 1]
                 ELSE IF ctag = 9
                 THEN IF anchor + klen + 5 > Len(b) THEN fail("struct.error")
                      ELSE [st |-> "ok",
                            declared |-> <<u32(SubSeq(b, anchor + klen + 2, anchor + klen + 5))>>,
                            body |-> anchor + klen + 5]
                 ELSE fail("RuntimeError")

\* one pass of the main scan loop over data from offset c, up to the append
LookupStep(d, c) ==
    LET idx_off == Find(d, INDEX_SENT, c)
        ri == read_int(d, idx_off + Len(INDEX_SENT))
        role_off == Find(d, ROLE_SENT, ri.next)
        rr == read_int(d, role_off + Len(ROLE_SENT))
        stopped(why) == [st |-> why, row |-> <<>>, next |-> c]
    IN  IF idx_off = -1 THEN stopped("done")
        ELSE IF ri.st # "ok" THEN stopped(ri.st)
        ELSE IF role_off = -1 THEN stopped("ValueError")
        ELSE IF rr.st # "ok" THEN stopped(rr.st)
        ELSE [st |-> "row", row |-> <<Role_lookup_object(ri.value, rr.value)>>,
              next |-> rr.next]

\* what the pass of the scan loop that is about to run does
CurLookup == LookupStep(Data, scan)

\* the sanity check after the loop fails
CountMismatch(found) == declared # <<>> /\ Len(found) # declared[1]

lookupOthers == <<patchVars, tokVars, roleScoreLocals, valueVars, coeffs, blocks,
                  blk_id, pairs, made>>

\* the key text is missing or the container cannot be read: raise
LookupStartFail ==
    /\ ppc = "call"
    /\ lookup_body(buf, start).st # "ok"
    /\ ppc' = "raised"
    /\ UNCHANGED <<verbose, result, body, scan, declared, rows>>
    /\ UNCHANGED <<lookupOthers, seasonVars>>

\* body and declared found; rows, cur = [], 0
LookupStart ==
    /\ ppc = "call"
    /\ lookup_body(buf, start).st = "ok"
    /\ ppc' = "scan"
    /\ body' = lookup_body(buf, start).body
    /\ declared' = lookup_body(buf, start).declared
    /\ scan' = 0 /\ rows' = <<>>
    /\ UNCHANGED <<verbose, result>>
    /\ UNCHANGED <<lookupOthers, seasonVars>>

\* no more index key: break, then the sanity check, then return rows
LookupEnd ==
    /\ ppc = "scan"
    /\ CurLookup.st = "done"
    /\ IF CountMismatch(rows)
       THEN ppc' = "raised" /\ result' = result
       ELSE ppc' = "returned" /\ result' = <<rows>>
    /\ UNCHANGED <<verbose, body, scan, declared, rows>>
    /\ UNCHANGED <<lookupOthers, seasonVars>>

\* an integer cannot be read or the role key is missing: raise
LookupRaise ==
    /\ ppc = "scan"
    /\ CurLookup.st \in {"IndexError", "struct.error", "ValueError"}
    /\ ppc' = "raised"
    /\ UNCHANGED <<verbose, result, body, scan, declared, rows>>
    /\ UNCHANGED <<lookupOthers, seasonVars>>

\* one index/role pair: append; at the declared count break, check and
\* return; otherwise advance
LookupRow ==
    /\ ppc = "scan"
    /\ LET r == CurLookup
           more == rows \o r.row
       IN  /\ r.st = "row"
           /\ rows' = more
           /\ IF declared # <<>> /\ Len(more) >= declared[1]
              THEN /\ scan' = scan
                   /\ IF CountMismatch(more)
                      THEN ppc' = "raised" /\ result' = result
                      ELSE ppc' = "returned" /\ result' = <<more>>
              ELSE scan' = r.next /\ ppc' = "scan" /\ result' = result
    /\ UNCHANGED <<verbose, body, declared>>
    /\ UNCHANGED <<lookupOthers, seasonVars>>

(* Inputs of parse_role_lookup *)

\* the largest of the small declared counts and row numbers
MaxDeclared == 3

\* an integer in the encoding number j: tiny unsigned, INT32, INT64, UINT32,
\* UINT64, nibble tag
IntBytes(j) ==
    CASE j % 6 = 0 -> <<128 + ((7 * j) % 128)>>
      [] j % 6 = 1 -> <<2, j % 256, 0, 0, 128>>
      [] j % 6 = 2 -> <<3, j % 256, 0, 0, 0, 0, 0, 0, 128>>
      [] j % 6 = 3 -> <<4, j % 256, 0, 0, 255>>
      [] j % 6 = 4 -> <<5, j % 256, 0, 0, 0, 0, 0, 0, 255>>
      [] OTHER -> <<130 + 16 * (j % 8)>>

\* the j-th index/role pair as it lies in the file
LookupPair(j) == INDEX_SENT \o IntBytes(j) \o ROLE_SENT \o IntBytes(j + 3)

RECURSIVE LookupPairs(_, _)
\* the pairs lo..hi one after the other
LookupPairs(lo, hi) ==
    IF lo > hi THEN <<>>
    ELSE IF lo = hi THEN LookupPair(lo)
    ELSE LET mid == (lo + hi) \div 2
         IN  LookupPairs(lo, mid) \o LookupPairs(mid + 1, hi)

\* the container tag and, for an array, the declared count
LookupContainers ==
    { <<201>>, <<153>> } \cup { <<9, n, 0, 0, 0>> : n \in (0..MaxDeclared) \cup {45} }

\* the numbers of well-formed rows before the stop bound
RowCounts == (0..MaxDeclared + 1) \cup {40, 45, 50}

\* what may follow the last well-formed row before the stop bound
LookupTails ==
    { <<>>,
      <<0, 0>>,
      INDEX_SENT,
      INDEX_SENT \o <<7>>,
      INDEX_SENT \o <<129>>,
      INDEX_SENT \o <<129>> \o ROLE_SENT \o <<2, 1>>,
      INDEX_SENT \o <<129>> \o ROLE_SENT \o <<1>> }

LookupCall(b, anchor, n, k) == [buf |-> b, start |-> anchor, stop |-> n, made |-> k]

\* calls on a section of k well-formed rows and a tail, alone in the buffer
\* or followed beyond stop by two more rows
LookupCalls ==
    LET sect(c, k, t) == RoleLookupKey \o c \o LookupPairs(1, k) \o t
    IN  UNION { UNION { { LookupCall(<<0>> \o sect(c, k, t) \o LookupPairs(k + 1, k + g), 1,
                                     Len(sect(c, k, t)) + 1, <<k>>)
                            : g \in {0, 2} }
                          : t \in LookupTails }
                  : <<c, k>> \in LookupContainers \X RowCounts }
        \cup { LookupCall(RoleLookupKey \o <<7>> \o LookupPair(1), 0, 40, <<>>),
               LookupCall(RoleLookupKey, 0, 16, <<>>),
               LookupCall(RoleLookupKey \o <<9, 1, 0>>, 0, 19, <<>>),
               LookupCall(<<0>> \o RoleLookupKey \o <<201>> \o LookupPair(1), 0, 30, <<>>) }

\* parse_role_lookup(buf, start, stop, verbose) has been called
LookupInit ==
    /\ \E c \in LookupCalls :
           buf = c.buf /\ start = c.start /\ stop = c.stop /\ made = c.made
    /\ verbose \in BOOLEAN
    /\ cur = 0 /\ tpc = "off" /\ tokens = <<>> /\ heads = <<>>
    /\ ppc = "call" /\ result = <<>>
    /\ declared = <<>> /\ rows = <<>>
    /\ ScoreIdle /\ RoleIdle /\ ValueIdle /\ SeasonIdle
    /\ PatchIdle

LookupNext ==
    \/ LookupStartFail
    \/ LookupStart
    \/ LookupEnd
    \/ LookupRaise
    \/ LookupRow

LookupSpec == LookupInit /\ [][LookupNext]_vars

(* _read_int on its own *)

\* _read_int(d, 0) runs on the bytes of buf and returns (value, next_offset)
\* or raises
ReadIntCall ==
    /\ ppc = "call"
    /\ LET r == read_int(buf, 0)
       IN  IF r.st = "ok"
           THEN ppc' = "returned" /\ result' = <<[value |-> r.value, next |-> r.next]>>
           ELSE ppc' = "raised" /\ result' = result
    /\ UNCHANGED <<verbose, body, scan, declared, rows>>
    /\ UNCHANGED <<lookupOthers, seasonVars>>

\* the bytes that follow the tag: eight, none, three, seven
IntPayloads ==
    { <<1, 2, 3, 4, 5, 6, 7, 8>>, <<>>, <<255, 255, 255>>,
      <<254, 255, 255, 255, 255, 255, 255>>,
      <<255, 255, 255, 255, 255, 255, 255, 255>>, <<0, 0, 0, 128>> }

\* _read_int is about to run on a tag byte and a payload
IntInit ==
    /\ \E tag \in 0..255 : \E pl \in IntPayloads : buf = <<tag>> \o pl
    /\ start = 0 /\ stop = Len(buf)
    /\ verbose = FALSE
    /\ cur = 0 /\ tpc = "off" /\ tokens = <<>> /\ heads = <<>>
    /\ ppc = "call" /\ result = <<>>
    /\ ScoreIdle /\ RoleIdle /\ ValueIdle /\ LookupIdle /\ SeasonIdle
    /\ PatchIdle

IntNext == ReadIntCall

IntSpec == IntInit /\ [][IntNext]_vars

----------------------------------------------------------------------------
(* src/player_ratings_decoder.py: parse_version *)

\* KEY_VERSION = b"version"
KEY_VERSION == <<118, 101, 114, 115, 105, 111, 110>>

\* wanted = (b"version_major", b"version_minor", b"version_release",
\* b"version_year")
wanted ==
    << <<118, 101, 114, 115, 105, 111, 110, 95, 109, 97, 106, 111, 114>>,
       <<118, 101, 114, 115, 105, 111, 110, 95, 109, 105, 110, 111, 114>>,
       <<118, 101, 114, 115, 105, 111, 110, 95, 114, 101, 108, 101, 97, 115, 101>>,
       <<118, 101, 114, 115, 105, 111, 110, 95, 121, 101, 97, 114>> >>

\* a container test that lets every marker pass
ContainerAny(marker) == marker \in 0..255

\* if buf[pos] != 0x5A: raise
ContainerOk(marker) == marker = 90

\* _decode_int(buf, p): tiny unsigned (tag & 0x3F), INT32, INT64
decode_int(b, p) ==
    IF p >= Len(b) THEN [st |-> "IndexError", value |-> <<>>, next |-> p]
    ELSE LET tag == b[p + 1]
         IN  IF tag >= 128
             THEN [st |-> "ok", value |-> Halves(tag % 64), next |-> p + 1]
             ELSE IF tag = 2 THEN Unpack(b, p + 1, 4, i32)
             ELSE IF tag = 3 THEN Unpack(b, p + 1, 8, i64)
             ELSE [st |-> "RuntimeError", value |-> <<>>, next |-> p]

RECURSIVE VersionKeys(_, _, _, _)
\* for k in wanted, from the k-th key on with pos and the values read so far
VersionKeys(b, pos, k, out) ==
    IF k > Len(wanted) THEN [st |-> "ok", out |-> out]
    ELSE IF pos >= Len(b) THEN [st |-> "IndexError", out |-> <<>>]
    ELSE LET klen == b[pos + 1]
             v == decode_int(b, pos + 1 + klen)
         IN  IF klen # Len(wanted[k]) THEN [st |-> "RuntimeError", out |-> <<>>]
             ELSE IF Slice(b, pos + 1, pos + 1 + klen) # wanted[k]
             THEN [st |-> "RuntimeError", out |-> <<>>]
             ELSE IF v.st # "ok" THEN [st |-> v.st, out |-> <<>>]
             ELSE VersionKeys(b, v.next, k + 1, Append(out, v.value))

\* parse_version(buf, anchor): the dict of the four integers, or the exception
parse_version(b, anchor) ==
    LET pos == anchor + Len(KEY_VERSION)
        r == VersionKeys(b, pos + 1, 1, <<>>)
    IN  IF Slice(b, anchor, pos) # KEY_VERSION THEN [st |-> "RuntimeError", out |-> <<>>]
        ELSE IF pos >= Len(b) THEN [st |-> "IndexError", out |-> <<>>]
        ELSE IF ~ContainerOk(b[pos + 1]) THEN [st |-> "RuntimeError", out |-> <<>>]
        ELSE IF r.st # "ok" THEN r
        ELSE [st |-> "ok",
              out |-> [version_major |-> r.out[1], version_minor |-> r.out[2],
                       version_release |-> r.out[3], version_year |-> r.out[4]]]

\* parse_version(buf, start, verbose) runs: it returns the dict or raises
VersionCall ==
    /\ ppc = "call"
    /\ LET r == parse_version(buf, start)
       IN  IF r.st = "ok"
           THEN ppc' = "returned" /\ result' = <<r.out>>
           ELSE ppc' = "raised" /\ result' = result
    /\ UNCHANGED <<verbose, body, scan, declared, rows>>
    /\ UNCHANGED <<lookupOthers, seasonVars>>

(* Inputs of parse_version *)

\* the integers of a version block: tiny, tiny from 0xC0 up, INT32, INT64
VersionInts ==
    << <<152>>, <<193>>, <<2, 232, 7, 0, 0>>, <<3, 1, 0, 0, 0, 0, 0, 0, 0>>,
       <<2, 255, 255, 255, 255>>, <<3, 0, 0, 0, 0, 0, 0, 0, 128>>, <<255>> >>

\* the version block whose key number k (1..4) carries the integer number
\* sel[k], the keys taken in the order ord
VersionBlock(marker, ord, sel) ==
    LET key(k) == <<Len(wanted[ord[k]])>> \o wanted[ord[k]] \o VersionInts[sel[k]]
    IN  KEY_VERSION \o <<marker>> \o key(1) \o key(2) \o key(3) \o key(4)

\* a well-formed block
GoodVersion == VersionBlock(90, <<1, 2, 3, 4>>, <<1, 2, 3, 4>>)

\* b with the byte at position k (from 1) replaced by x
WithByte(b, k, x) == [b EXCEPT ![k] = x]

\* well-formed blocks with every choice of integers, a block under each other
\* container marker and in each other key order, every prefix of a
\* well-formed block, and a well-formed block with one byte replaced
VersionBuffers ==
    { VersionBlock(90, <<1, 2, 3, 4>>, <<a, b, c, d>>) :
          a \in 1..Len(VersionInts), b \in {2, 5}, c \in {3, 6}, d \in {1, 4, 7} }
    \cup { VersionBlock(m, <<1, 2, 3, 4>>, <<1, 2, 3, 4>>) : m \in {201, 153, 9, 74, 0} }
    \cup { VersionBlock(90, o, <<1, 1, 1, 1>>) :
               o \in { <<2, 1, 3, 4>>, <<1, 2, 4, 3>>, <<4, 3, 2, 1>>, <<1, 1, 3, 4>>,
                       <<1, 3, 4, 4>> } }
    \cup { SubSeq(GoodVersion, 1, n) : n \in 0..Len(GoodVersion) }
    \cup { WithByte(GoodVersion, k, x) : k \in 1..Len(GoodVersion), x \in {0, 13, 90, 130} }

\* parse_version(buf, anchor, verbose) has been called
VersionInit ==
    /\ \E b \in VersionBuffers : \E lead \in {<<>>, <<118>>} :
           buf = lead \o b /\ start = Len(lead)
    /\ stop = Len(buf)
    /\ verbose \in BOOLEAN
    /\ cur = 0 /\ tpc = "off" /\ tokens = <<>> /\ heads = <<>>
    /\ ppc = "call" /\ result = <<>>
    /\ ScoreIdle /\ RoleIdle /\ ValueIdle /\ LookupIdle /\ SeasonIdle
    /\ PatchIdle

VersionNext == VersionCall

VersionSpec == VersionInit /\ [][VersionNext]_vars

----------------------------------------------------------------------------
(* src/player_ratings_decoder.py: parse_start_value, decode_season *)

\* KEY = b"start_value"
StartValueKey == <<115, 116, 97, 114, 116, 95, 118, 97, 108, 117, 101>>

\* parse_start_value(buf, anchor): the integer, or the exception
parse_start_value(b, anchor) ==
    LET pos == anchor + Len(StartValueKey)
    IN  IF Slice(b, anchor, pos) # StartValueKey
        THEN [st |-> "RuntimeError", value |-> <<>>, next |-> pos]
        ELSE IF pos >= Len(b) THEN [st |-> "IndexError", value |-> <<>>, next |-> pos]
        ELSE IF b[pos + 1] = 2 THEN Unpack(b, pos + 1, 4, i32)
        ELSE IF b[pos + 1] = 3 THEN Unpack(b, pos + 1, 8, i64)
        ELSE [st |-> "RuntimeError", value |-> <<>>, next |-> pos]

\* parse_start_value(buf, start, verbose) runs: it returns the value or raises
StartValueCall ==
    /\ ppc = "call"
    /\ LET r == parse_start_value(buf, start)
       IN  IF r.st = "ok"
           THEN ppc' = "returned" /\ result' = <<r.value>>
           ELSE ppc' = "raised" /\ result' = result
    /\ UNCHANGED <<verbose, body, scan, declared, rows>>
    /\ UNCHANGED <<lookupOthers, seasonVars>>

\* the fields of Hex_address_object, in the order decode_season parses them
Sections == <<"expected_score_data", "role_data", "role_lookup_data",
              "start_value", "version">>

\* an offset check that takes len(buf) itself as inside
OffsetsValidUpTo(b, l) ==
    \A k \in 1..Len(Sections) : 0 <= l[Sections[k]] /\ l[Sections[k]] <= Len(b)

\* 0 <= x_start < len(buf) for the five offsets
OffsetsValid(b, l) ==
    \A k \in 1..Len(Sections) : 0 <= l[Sections[k]] /\ l[Sections[k]] < Len(b)

\* the stop argument of the k-th section parser (the next section's offset),
\* where it takes one
SectionStop(k) == IF k <= 3 THEN locs[Sections[k + 1]] ELSE stop

seasonOthers == <<patchVars, buf, cur, tpc, tokens, heads, verbose, roleScoreLocals,
                  roleVars, valueVars, lookupVars, locs>>

\* the offset check fails: raise ValueError("Invalid offsets ...")
SeasonInvalid ==
    /\ spc = "check"
    /\ ~OffsetsValid(buf, locs)
    /\ spc' = "invalid"
    /\ UNCHANGED <<start, stop, ppc, result, invoked, parts>>
    /\ UNCHANGED seasonOthers

\* the offset check passes: call parse_expected_score(buf, es_start, rd_start)
SeasonCall ==
    /\ spc = "check"
    /\ OffsetsValid(buf, locs)
    /\ spc' = Sections[1]
    /\ start' = locs[Sections[1]] /\ stop' = SectionStop(1)
    /\ ppc' = "call" /\ result' = <<>>
    /\ invoked' = <<Sections[1]>>
    /\ UNCHANGED parts
    /\ UNCHANGED seasonOthers

\* a section parser has returned: keep its value and call the next one, or
\* after parse_version return the RatingsObject
SeasonAdvance ==
    /\ \E k \in 1..Len(Sections) :
           /\ spc = Sections[k]
           /\ ppc = "returned"
           /\ parts' = Append(parts, result[1])
           /\ IF k < Len(Sections)
              THEN /\ spc' = Sections[k + 1]
                   /\ start' = locs[Sections[k + 1]] /\ stop' = SectionStop(k + 1)
                   /\ ppc' = "call" /\ result' = <<>>
                   /\ invoked' = Append(invoked, Sections[k + 1])
              ELSE /\ spc' = "returned"
                   /\ ppc' = "off" /\ result' = <<>>
                   /\ UNCHANGED <<start, stop, invoked>>
    /\ UNCHANGED seasonOthers

\* a section parser has raised: decode_season raises with it
SeasonRaise ==
    /\ spc \in {Sections[k] : k \in 1..Len(Sections)}
    /\ ppc = "raised"
    /\ spc' = "raised"
    /\ ppc' = "off"
    /\ UNCHANGED <<start, stop, result, invoked, parts>>
    /\ UNCHANGED seasonOthers

(* Inputs of decode_season *)

\* expected_score_data sections: well-formed, with a stray name, with a wrong key
SeasonScores ==
    { PlainSection,
      ScoreSection(201, [r \in 1..11 |-> IF r = 2 THEN "stray" ELSE "good"]),
      ScoreSection(201, [r \in 1..11 |-> IF r = 3 THEN "badKey" ELSE "good"]) }

\* role_data sections of two pairs: ending cleanly, in garbage, in a cut value
SeasonRoles ==
    { RoleDataKey \o <<201>> \o PairsBytes(2) \o t :
          t \in { <<>>, <<0, 0>>, NAME_S \o <<129, 113>> \o VALUE_S \o <<2, 1>> } }

\* role_lookup_data sections: an array of one row with two pairs, an object of
\* one pair, an object with a bad tag
SeasonLookups ==
    { RoleLookupKey \o <<9, 1, 0, 0, 0>> \o LookupPairs(1, 2),
      RoleLookupKey \o <<201>> \o LookupPair(1),
      RoleLookupKey \o <<201>> \o INDEX_SENT \o <<7>> }

\* start_value sections: an INT32, an unknown marker
SeasonStartValues == { StartValueKey \o <<2, 220, 5, 0, 0>>, StartValueKey \o <<7>> }

\* version sections: well-formed, with another container
SeasonVersions == { GoodVersion, VersionBlock(201, <<1, 2, 3, 4>>, <<1, 1, 1, 1>>) }

\* the five sections one after the other, with the offset of each
Season(es, rd, rl, sv, ver) ==
    [buf |-> es \o rd \o rl \o sv \o ver,
     loc |-> [expected_score_data |-> 0,
              role_data |-> Len(es),
              role_lookup_data |-> Len(es) + Len(rd),
              start_value |-> Len(es) + Len(rd) + Len(rl),
              version |-> Len(es) + Len(rd) + Len(rl) + Len(sv)]]

\* the season whose sections are all well-formed
GoodSeason ==
    Season(PlainSection, RoleDataKey \o <<201>> \o PairsBytes(2),
           RoleLookupKey \o <<201>> \o LookupPair(1),
           StartValueKey \o <<2, 220, 5, 0, 0>>, GoodVersion)

\* an offset moved: by one byte, below 0, to len(buf), beyond it
MovedOffsets(b, o) == {o + 1, -1, Len(b) - 1, Len(b), Len(b) + 5}

\* seasons with right offsets and every choice of sections, and the
\* well-formed season with one offset or two offsets moved
SeasonCalls ==
    { Season(es, rd, rl, sv, ver) :
          es \in SeasonScores, rd \in SeasonRoles, rl \in SeasonLookups,
          sv \in SeasonStartValues, ver \in SeasonVersions }
    \cup { [GoodSeason EXCEPT !.loc[f] = o] :
               f \in {Sections[k] : k \in 1..Len(Sections)},
               o \in UNION { MovedOffsets(GoodSeason.buf, GoodSeason.loc[g]) :
                               g \in {Sections[k] : k \in 1..Len(Sections)} } }
    \cup { [GoodSeason EXCEPT !.loc.version = Len(GoodSeason.buf), !.loc.role_data = -1] }

\* decode_season(buf, loc, verbose) has been called
SeasonInit ==
    /\ \E c \in SeasonCalls : buf = c.buf /\ locs = c.loc
    /\ verbose \in BOOLEAN
    /\ spc = "check" /\ invoked = <<>> /\ parts = <<>>
    /\ start = 0 /\ stop = Len(buf)
    /\ cur = 0 /\ tpc = "off" /\ tokens = <<>> /\ heads = <<>>
    /\ ppc = "off" /\ result = <<>>
    /\ ScoreIdle /\ RoleIdle /\ ValueIdle /\ LookupIdle
    /\ PatchIdle

SeasonNext ==
    \/ SeasonInvalid
    \/ SeasonCall
    \/ SeasonAdvance
    \/ SeasonRaise
    \/ spc = "expected_score_data" /\ ScoreNext
    \/ spc = "role_data" /\ RoleNext
    \/ spc = "role_lookup_data" /\ LookupNext
    \/ spc = "start_value" /\ StartValueCall
    \/ spc = "version" /\ VersionCall

SeasonSpec == SeasonInit /\ [][SeasonNext]_vars

----------------------------------------------------------------------------
(* Properties of parse_role_lookup *)

\* C21: with an array container that declares N rows, the scan stops exactly
\* at N rows: it never holds more than N, a call on a section with at least N
\* well-formed rows returns exactly the first N of them whatever follows, and
\* a call on a section with fewer than N well-formed rows raises and returns
\* no list
C21_DeclaredCount ==
    (declared # <<>> /\ made # <<>>) =>
        LET N == declared[1]
        IN  /\ Len(rows) <= N
            /\ ppc = "returned" => made[1] >= N /\ Len(result[1]) = N
            /\ ppc = "raised" => made[1] < N /\ result = <<>>

\* the payload holds the width bytes of the integer
HasPayload(width) == Len(buf) >= 1 + width

\* what _read_int has returned: the value and the offset after it
Returned(value, next) == ppc = "returned" /\ result = <<[value |-> value, next |-> next]>>

\* C27: _read_int follows the documented table for every tag byte: 0x02 and
\* 0x03 give the signed INT32 and INT64, 0x04 and 0x05 the unsigned UINT32 and
\* UINT64, every tag in 0x80-0xFF gives tag - 0x80, a nibble tag (top bit set,
\* low nibble 2) gives a value in 0..15, and any other tag is rejected
C27_TagTable ==
    ppc \in {"returned", "raised"} =>
        LET tag == buf[1]
            payload(width) == SubSeq(buf, 2, 1 + width)
        IN  /\ (tag = 2 /\ HasPayload(4)) => Returned(i32(payload(4)), 5)
            /\ (tag = 3 /\ HasPayload(8)) => Returned(i64(payload(8)), 9)
            /\ (tag = 4 /\ HasPayload(4)) => Returned(uint32(payload(4)), 5)
            /\ (tag = 5 /\ HasPayload(8)) => Returned(uint64(payload(8)), 9)
            /\ tag >= 128 => Returned(Halves(tag - 128), 1)
            /\ (tag >= 128 /\ tag % 16 = 2) =>
                   \E v \in 0..15 : Returned(Halves(v), 1)
            /\ (tag < 128 /\ tag \notin {2, 3, 4, 5}) => ppc = "raised"

----------------------------------------------------------------------------
(* Properties of parse_version *)

\* the key header and text of the k-th wanted key lie at offset p of buf
KeyAt(p, k) ==
    /\ p + 1 + Len(wanted[k]) <= Len(buf)
    /\ buf[p + 1] = Len(wanted[k])
    /\ SubSeq(buf, p + 2, p + 1 + Len(wanted[k])) = wanted[k]

\* the offset of the k-th key header when the integers before it take the
\* widths w[1], ..., w[k - 1]
RECURSIVE KeyOffset(_, _)
KeyOffset(w, k) ==
    IF k = 1 THEN start + Len(KEY_VERSION) + 1
    ELSE KeyOffset(w, k - 1) + 1 + Len(wanted[k - 1]) + w[k - 1]

\* C22: parse_version returns only if the byte after the key text 'version' is
\* 0x5A and the four keys follow in the order version_major, version_minor,
\* version_release, version_year, each behind a one-byte header equal to its
\* length and each followed by an integer of 1, 5 or 9 bytes; it then returns
\* all four entries, and a call that raises returns nothing
C22_ExactLayout ==
    /\ ppc = "returned" =>
           /\ Slice(buf, start, start + Len(KEY_VERSION)) = KEY_VERSION
           /\ buf[start + Len(KEY_VERSION) + 1] = 90
           /\ \E w \in [1..3 -> {1, 5, 9}] : \A k \in 1..4 : KeyAt(KeyOffset(w, k), k)
           /\ DOMAIN result[1] =
                  {"version_major", "version_minor", "version_release", "version_year"}
    /\ ppc = "raised" => result = <<>>

\* a call has raised on a block with the right container marker whose first
\* key is version_minor
C22_Witness ==
    /\ ppc = "raised" /\ result = <<>>
    /\ Slice(buf, start, start + Len(KEY_VERSION)) = KEY_VERSION
    /\ Len(buf) > start + Len(KEY_VERSION)
    /\ buf[start + Len(KEY_VERSION) + 1] = 90
    /\ KeyAt(start + Len(KEY_VERSION) + 1, 2)

\* C26: each of the four integers parse_version returns is non-negative
C26_NonNegative ==
    ppc = "returned" =>
        \A v \in { result[1].version_major, result[1].version_minor,
                   result[1].version_release, result[1].version_year } :
            v[Len(v)] >= 0

----------------------------------------------------------------------------
(* Properties of the patcher: the version fields, the order of the edits *)

VersionFields == {"version_major", "version_minor", "version_release", "version_year"}

\* the edit patch is looking at names a version field
VersionEditHere ==
    /\ pc = "edit" /\ ei <= Len(json.items)
    /\ CurKey \in VersionFields

\* the edit map is not empty and names version fields only
OnlyVersionEdits ==
    /\ json.kind = "dict" /\ json.items # <<>>
    /\ \A n \in 1..Len(json.items) : json.items[n].key \in VersionFields

\* an occurrence of the version field of edit n has the indicator byte 0x02
VersionIndicatorIs2(n) ==
    /\ HasKey(offsets, json.items[n].key)
    /\ \E lk \in DOMAIN Lookup(offsets, json.items[n].key) :
          LET pos == IndicatorPos(json.items[n].key, Lookup(offsets, json.items[n].key)[lk])
          IN  pos < Len(before) /\ At(before, pos) = 2

\* C30: an edit to version_major, version_minor, version_release or
\* version_year changes no byte, prints no warning and looks at no occurrence,
\* whatever the indicator bytes of the field are; a patch whose edit map names
\* such fields only does not fail and writes back the buffer it read.
C30_VersionEditsDropped ==
    /\ [][VersionEditHere =>
            /\ jsb_data' = jsb_data /\ jsb_file' = jsb_file
            /\ warnings' = warnings /\ trail' = trail
            /\ pc' = "edit" /\ ei' = ei + 1]_vars
    /\ []((OnlyVersionEdits /\ pc \in {"edit", "occ", "done", "failed"}) =>
            /\ pc \in {"edit", "done"}
            /\ jsb_data = before /\ jsb_file = before
            /\ warnings = <<>> /\ trail = <<>>)

\* a patch of version_major and version_year has run to its end on a file in
\* which an occurrence of each of them has the indicator byte 0x02 and the
\* edit's value differs from the bytes after it
C30_Witness ==
    /\ pc = "done" /\ OnlyVersionEdits /\ Len(json.items) = 2
    /\ \A n \in 1..2 : VersionIndicatorIs2(n)
    /\ jsb_file = before
    /\ Slice(before, 24, 28) # to_bytes4(json.items[1].val)

RECURSIVE PatchOccurrences(_, _, _, _, _)
\* the loop over ("loc", "loc2") for one edit, from loc key number k on: the
\* buffer after it, or the exception that ended it
PatchOccurrences(data, tbl, key, val, k) ==
    IF k > Len(LocKeys) THEN [st |-> "done", data |-> data]
    ELSE IF LocKeys[k] \notin DOMAIN Lookup(tbl, key)
    THEN PatchOccurrences(data, tbl, key, val, k + 1)
    ELSE LET r == PatchOccurrence(data, key, Lookup(tbl, key)[LocKeys[k]], val)
         IN  IF r.st \in {"IndexError", "OverflowError"}
             THEN [st |-> "failed", data |-> data]
             ELSE PatchOccurrences(r.data, tbl, key, val, k + 1)

RECURSIVE PatchEdits(_, _, _, _)
\* the loop over updates.items(), from edit number n on
PatchEdits(data, tbl, items, n) ==
    IF n > Len(items) THEN [st |-> "done", data |-> data]
    ELSE IF EditClass(tbl, items[n].key) # "known"
    THEN PatchEdits(data, tbl, items, n + 1)
    ELSE LET r == PatchOccurrences(data, tbl, items[n].key, items[n].val, 1)
         IN  IF r.st = "failed" THEN r ELSE PatchEdits(r.data, tbl, items, n + 1)

\* the file after patch_physical_constraints has run on it with the edit map items
PatchedFile(file, tbl, items) ==
    LET r == PatchEdits(file, tbl, items, 1)
    IN  IF r.st = "failed" THEN FileAfterAbort(file, r.data)
        ELSE FileAfterWrite(file, r.data)

Reversed(s) == [n \in 1..Len(s) |-> s[Len(s) + 1 - n]]

\* a patch has ended whose edit map has two entries
TwoEditsApplied ==
    /\ pc \in {"done", "failed"} /\ json.kind = "dict" /\ Len(json.items) = 2

\* C28 as written: for every buffer and offset table and any two edits to
\* distinct fields, the file after the patch is the file the patch yields when
\* the two edits are applied in the other order.  Stated on the runs in which
\* the buffer keeps its length in both orders, so that a violation does not
\* rest on C1.
C28_OrderIndependentAlways ==
    (TwoEditsApplied
        /\ Len(jsb_file) = Len(before)
        /\ Len(PatchedFile(before, offsets, Reversed(json.items))) = Len(before))
    => jsb_file = PatchedFile(before, offsets, Reversed(json.items))

\* the occurrences of two different edited fields are apart: their indicator
\* bytes are different bytes and neither lies in the value region of the other
Apart(tbl, items) ==
    \A a, b \in 1..Len(items) :
        (a # b /\ EditClass(tbl, items[a].key) = "known"
               /\ EditClass(tbl, items[b].key) = "known") =>
            \A la \in DOMAIN Lookup(tbl, items[a].key), lb \in DOMAIN Lookup(tbl, items[b].key) :
                LET p == IndicatorPos(items[a].key, Lookup(tbl, items[a].key)[la])
                    q == IndicatorPos(items[b].key, Lookup(tbl, items[b].key)[lb])
                IN  p # q /\ p \notin ValueRegion(q) /\ q \notin ValueRegion(p)

\* C28 (amended): when the occurrences of the two edited fields are apart, the
\* file after the patch is the file the patch yields with the two edits in
\* the other order, whether the patch completes or fails.
C28_OrderIndependent ==
    (TwoEditsApplied /\ Apart(offsets, json.items))
    => jsb_file = PatchedFile(before, offsets, Reversed(json.items))

\* both edits of a two-entry map were written, to occurrences that are apart,
\* and each changed the file
C28_Witness ==
    /\ pc = "done" /\ json.kind = "dict" /\ Len(json.items) = 2
    /\ Apart(offsets, json.items)
    /\ \A n \in 1..2 : \E t \in 1..Len(trail) :
          /\ trail[t].key = json.items[n].key /\ trail[t].st = "patched"
          /\ Slice(before, trail[t].pos + 1, trail[t].pos + 5)
               # Slice(jsb_file, trail[t].pos + 1, trail[t].pos + 5)

----------------------------------------------------------------------------
(* Properties of decode_season *)

\* one of the five section offsets is outside [0, len(buf))
SomeOffsetOutside ==
    \E f \in {"expected_score_data", "role_data", "role_lookup_data", "start_value",
              "version"} : locs[f] < 0 \/ locs[f] >= Len(buf)

\* C25: whenever one of the five section offsets is outside [0, len(buf)),
\* decode_season can only raise the invalid-offsets error, and no section
\* parser has been invoked or is running
C25_RejectBeforeParsing ==
    (spc # "off" /\ SomeOffsetOutside) =>
        /\ spc \in {"check", "invalid"}
        /\ invoked = <<>> /\ parts = <<>>
        /\ ppc = "off" /\ result = <<>>
        /\ spc = "check" => ENABLED SeasonInvalid /\ ~ENABLED SeasonCall

\* the call was rejected for a version offset equal to len(buf), the other
\* four offsets being inside the buffer
C25_Witness ==
    /\ spc = "invalid" /\ invoked = <<>>
    /\ locs.version = Len(buf)
    /\ \A f \in {"expected_score_data", "role_data", "role_lookup_data", "start_value"} :
           0 <= locs[f] /\ locs[f] < Len(buf)

----------------------------------------------------------------------------
(* src/physics_decode_jsb.py: compare_jsb_copies and verify_physical_constraints *)

\* if ignored is None: the four version keys.  arg is <<>> for None or <<set>>
DefaultIgnored(arg) ==
    IF arg = <<>>
    THEN {"version_major", "version_minor", "version_release", "version_year"}
    ELSE arg[1]

DiffLine(k, v1, v2) ==
    [kind |-> "DIFF", key |-> k, obj1 |-> v1, obj2 |-> v2, expected |-> <<>>]

\* a comparison that looks only at the keys both copies hold
compare_jsb_copies_common(jsb, tbl, ign) ==
    LET obj1 == decode_physical_constraints(jsb, tbl, "obj1")
        obj2 == decode_physical_constraints(jsb, tbl, "obj2")
        differs(k) == /\ Get(obj1, k) # <<>> /\ Get(obj2, k) # <<>>
                      /\ k \notin ign
                      /\ Get(obj1, k) # Get(obj2, k)
        keys == SelectSeq(SortedKeys, differs)
    IN  [ok |-> keys = <<>>,
         lines |-> [n \in 1..Len(keys) |->
                       DiffLine(keys[n], Get(obj1, keys[n]), Get(obj2, keys[n]))]]

\* compare_jsb_copies with the local ignored = ign, when the decoder returns:
\* the value returned and the [DIFF] lines printed, in the order of
\* sorted(set(obj1) | set(obj2))
compare_jsb_copies(jsb, tbl, ign) ==
    LET obj1 == decode_physical_constraints(jsb, tbl, "obj1")
        obj2 == decode_physical_constraints(jsb, tbl, "obj2")
        differs(k) == /\ (Get(obj1, k) # <<>> \/ Get(obj2, k) # <<>>)
                      /\ k \notin ign
                      /\ Get(obj1, k) # Get(obj2, k)
        keys == SelectSeq(SortedKeys, differs)
    IN  [ok |-> keys = <<>>,
         lines |-> [n \in 1..Len(keys) |->
                       DiffLine(keys[n], Get(obj1, keys[n]), Get(obj2, keys[n]))]]

\* a check in which a key passes only if both copies match the expected value
VerifyLineBoth(obj1, obj2, key, exp) ==
    LET v1 == Get(obj1, key)
        v2 == Get(obj2, key)
    IN  IF v1 = <<exp>> /\ v2 = <<exp>>
        THEN <<>>
        ELSE << [kind |-> "FAIL", key |-> key, obj1 |-> v1, obj2 |-> v2,
                 expected |-> <<exp>>] >>

\* one turn of the loop over desired.items(): <<>>, or the line printed
VerifyLine(obj1, obj2, key, exp) ==
    LET v1 == Get(obj1, key)
        v2 == Get(obj2, key)
    IN  IF v1 = <<exp>> \/ v2 = <<exp>>
        THEN IF v1 # v2
             THEN << [kind |-> "WARN", key |-> key, obj1 |-> v1, obj2 |-> v2,
                      expected |-> <<exp>>] >>
             ELSE <<>>
        ELSE << [kind |-> "FAIL", key |-> key, obj1 |-> v1, obj2 |-> v2,
                 expected |-> <<exp>>] >>

RECURSIVE VerifyLines(_, _, _, _)
VerifyLines(obj1, obj2, items, n) ==
    IF n > Len(items) THEN <<>>
    ELSE VerifyLine(obj1, obj2, items[n].key, items[n].val)
         \o VerifyLines(obj1, obj2, items, n + 1)

\* verify_physical_constraints when the desired-values file holds the dict
\* items and the decoder returns: the value returned and the lines printed
verify_physical_constraints(jsb, tbl, items) ==
    LET obj1 == decode_physical_constraints(jsb, tbl, "obj1")
        obj2 == decode_physical_constraints(jsb, tbl, "obj2")
        lines == VerifyLines(obj1, obj2, items, 1)
    IN  [ok |-> \A n \in 1..Len(lines) : lines[n].kind # "FAIL",
         lines |-> lines]

checkOthers == <<jsb_file, offsets, json, jsb_data, ei, li, warnings, trail,
                 run, before, original, origin, desired, tokVars, parseVars>>

\* compare_jsb_copies(ignored) returns
CompareReturn(arg) ==
    /\ pc = "idle"
    /\ ~DecodeRaises(jsb_file, offsets)
    /\ ignored' = DefaultIgnored(arg)
    /\ verdict' = << compare_jsb_copies(jsb_file, offsets, DefaultIgnored(arg)).ok >>
    /\ report' = compare_jsb_copies(jsb_file, offsets, DefaultIgnored(arg)).lines
    /\ pc' = "compared"
    /\ UNCHANGED checkOthers

\* decode_physical_constraints raises IndexError inside compare_jsb_copies
CompareRaise(arg) ==
    /\ pc = "idle"
    /\ DecodeRaises(jsb_file, offsets)
    /\ ignored' = DefaultIgnored(arg)
    /\ pc' = "compare_raised"
    /\ UNCHANGED <<verdict, report>>
    /\ UNCHANGED checkOthers

\* if not PATCH_VALUES_JSON.exists(): return False
VerifyNoJson ==
    /\ pc = "idle" /\ desired.kind = "none"
    /\ verdict' = <<FALSE>>
    /\ pc' = "verified"
    /\ UNCHANGED <<ignored, report>>
    /\ UNCHANGED checkOthers

\* verify_physical_constraints returns
VerifyReturn ==
    /\ pc = "idle" /\ desired.kind = "dict"
    /\ ~DecodeRaises(jsb_file, offsets)
    /\ verdict' = << verify_physical_constraints(jsb_file, offsets, desired.items).ok >>
    /\ report' = verify_physical_constraints(jsb_file, offsets, desired.items).lines
    /\ pc' = "verified"
    /\ UNCHANGED ignored
    /\ UNCHANGED checkOthers

\* decode_physical_constraints raises IndexError inside verify_physical_constraints
VerifyRaise ==
    /\ pc = "idle" /\ desired.kind = "dict"
    /\ DecodeRaises(jsb_file, offsets)
    /\ pc' = "verify_raised"
    /\ UNCHANGED <<ignored, verdict, report>>
    /\ UNCHANGED checkOthers

----------------------------------------------------------------------------
(* Inputs of compare_jsb_copies and verify_physical_constraints *)

\* files of 32-bit fields holding 100 and 200 beside the patcher's files
CheckFiles ==
    PatchFiles \cup
    {Field32(a) \o Field32(b) : a, b \in {W(0, 100), W(0, 200)}}

\* offset tables: one field with two copies; a second field whose copies are
\* the same bytes; a second field with one copy only; a version field beside a
\* field whose copies are the same bytes
CheckTables ==
    { << [key |-> "run_speed", offs |-> [loc |-> 0, loc2 |-> 14]] >>,
      << [key |-> "walk_speed", offs |-> [loc |-> 0, loc2 |-> 0]],
         [key |-> "run_speed", offs |-> [loc |-> 0, loc2 |-> 14]] >>,
      << [key |-> "walk_speed", offs |-> [loc |-> 0]],
         [key |-> "run_speed", offs |-> [loc |-> 0, loc2 |-> 14]] >>,
      << [key |-> "version_year", offs |-> [loc |-> 0, loc2 |-> 14]],
         [key |-> "run_speed", offs |-> [loc |-> 0, loc2 |-> 0]] >> }

\* the ignored argument: None, or a set of keys
IgnoredArgs ==
    { <<>>, << {} >>, << {"run_speed"} >>, << {"walk_speed"} >>,
      << {"run_speed", "walk_speed"} >> }

\* desired_physical_constraints.json: missing, or a dict of integers
DesiredFiles ==
    { [kind |-> "none", items |-> <<>>] } \cup
    { [kind |-> "dict", items |-> m] :
        m \in { <<>>,
                << [key |-> "run_speed", val |-> W(0, 100)] >>,
                << [key |-> "run_speed", val |-> W(0, 300)] >>,
                << [key |-> "run_speed", val |-> W(0, 2)] >>,
                << [key |-> "walk_speed", val |-> W(0, 1)],
                   [key |-> "run_speed", val |-> W(0, 2)] >>,
                << [key |-> "run_speed", val |-> W(0, 1)],
                   [key |-> "bogus", val |-> W(0, 1)] >>,
                << [key |-> "version_year", val |-> W(0, 1)] >> } }

CheckInit ==
    /\ jsb_file \in CheckFiles
    /\ offsets \in CheckTables
    /\ desired \in DesiredFiles
    /\ ignored = {} /\ verdict = <<>> /\ report = <<>>
    /\ json = [kind |-> "none", items |-> <<>>]
    /\ origin = "none"
    /\ jsb_data = <<>>
    /\ pc = "idle"
    /\ ei = 1 /\ li = 1
    /\ warnings = <<>> /\ trail = <<>>
    /\ run = 0
    /\ before = jsb_file
    /\ original = jsb_file
    /\ TokIdle /\ ParseIdle

CheckNext ==
    \/ \E arg \in IgnoredArgs : CompareReturn(arg)
    \/ \E arg \in IgnoredArgs : CompareRaise(arg)
    \/ VerifyNoJson
    \/ VerifyReturn
    \/ VerifyRaise

CheckSpec == CheckInit /\ [][CheckNext]_vars

----------------------------------------------------------------------------
(* Properties of compare_jsb_copies and verify_physical_constraints *)

\* the table entries whose field the decoder decodes in either copy
DecodedEntries ==
    {n \in 1..Len(offsets) :
        /\ offsets[n].key \notin ignored_keys
        /\ \/ GrabEntry(jsb_file, offsets[n].offs, "loc") # <<>>
           \/ GrabEntry(jsb_file, offsets[n].offs, "loc2") # <<>>}

\* the two copies of table entry n decode to the same value
SameInBoth(n) ==
    /\ GrabEntry(jsb_file, offsets[n].offs, "loc") # <<>>
    /\ GrabEntry(jsb_file, offsets[n].offs, "loc") = GrabEntry(jsb_file, offsets[n].offs, "loc2")

\* the offset table without the fields of the set ign
Without(tbl, ign) == SelectSeq(tbl, LAMBDA e : e.key \notin ign)

\* C23: compare_jsb_copies returns True exactly when every field outside the
\* ignored set that is decoded in either copy decodes to the same value in
\* both; the fields it reports are exactly the fields outside the ignored set
\* with different values or decoded in one copy only; and it returns what it
\* returns for the table without the ignored fields.
C23_CompareExact ==
    (pc = "compared") =>
        /\ verdict = << \A n \in DecodedEntries :
                           offsets[n].key \in ignored \/ SameInBoth(n) >>
        /\ {report[m].key : m \in 1..Len(report)}
             = {offsets[n].key : n \in {d \in DecodedEntries :
                                          offsets[d].key \notin ignored /\ ~SameInBoth(d)}}
        /\ \A m \in 1..Len(report) : report[m].kind = "DIFF"
        /\ verdict = << compare_jsb_copies(jsb_file, Without(offsets, ignored), {}).ok >>

\* the comparison failed for a field decoded in the first copy only, while
\* another field, whose copies hold different values, was ignored
C23_Witness ==
    /\ pc = "compared" /\ verdict = <<FALSE>>
    /\ ignored = {"run_speed"}
    /\ \E n \in DecodedEntries :
          /\ offsets[n].key = "run_speed"
          /\ GrabEntry(jsb_file, offsets[n].offs, "loc") # <<>>
          /\ GrabEntry(jsb_file, offsets[n].offs, "loc2") # <<>>
          /\ ~SameInBoth(n)
    /\ Len(report) = 1 /\ report[1].key = "walk_speed"
    /\ report[1].obj1 # <<>> /\ report[1].obj2 = <<>>

\* the values the two copies hold for the field key: <<>> when the decoder
\* does not decode it
CopyValues(key) ==
    IF HasKey(offsets, key) /\ key \notin ignored_keys
    THEN {v \in {GrabEntry(jsb_file, Lookup(offsets, key), "loc"),
                 GrabEntry(jsb_file, Lookup(offsets, key), "loc2")} : v # <<>>}
    ELSE {}

\* C24: verify_physical_constraints returns True exactly when every field of
\* the expected-value map equals the decoded value of at least one copy; a
\* field matched by one copy while the copies differ gets a [WARN] line only,
\* a field matched by no copy a [FAIL] line.
C24_VerifyExact ==
    (pc = "verified" /\ desired.kind = "dict") =>
        /\ verdict = << \A n \in 1..Len(desired.items) :
                           <<desired.items[n].val>> \in CopyValues(desired.items[n].key) >>
        /\ \A n \in 1..Len(desired.items) :
              LET k == desired.items[n].key
                  matched == <<desired.items[n].val>> \in CopyValues(k)
                  lines == {m \in 1..Len(report) : report[m].key = k}
              IN  /\ ~matched => \E m \in lines : report[m].kind = "FAIL"
                  /\ matched => \A m \in lines : report[m].kind = "WARN"
                  /\ (matched /\ lines # {}) =>
                        \/ Cardinality(CopyValues(k)) = 2
                        \/ \E lk \in {"loc", "loc2"} :
                              GrabEntry(jsb_file, Lookup(offsets, k), lk) = <<>>

\* the copies hold 100 and 200 and the expected value 100: the check passed
\* with a warning
C24_Witness ==
    /\ pc = "verified" /\ verdict = <<TRUE>>
    /\ desired.items = << [key |-> "run_speed", val |-> W(0, 100)] >>
    /\ CopyValues("run_speed") = { <<W(0, 100)>>, <<W(0, 200)>> }
    /\ Len(report) = 1 /\ report[1].kind = "WARN"

----------------------------------------------------------------------------
(* The patcher and the decoder on the same occurrence *)

\* visit t of the current patch call wrote its value
Written(t) == t \in 1..Len(trail) /\ trail[t].st = "patched"

\* the offset of the occurrence of visit t
OffsetOf(t) == Lookup(offsets, trail[t].key)[trail[t].loc_key]

\* what the decoder reads from the file for the occurrence of visit t:
\* "IndexError", or what _grab returns
GrabOf(t) ==
    IF GrabRaises(jsb_file, OffsetOf(t)) THEN "IndexError"
    ELSE grab(jsb_file, OffsetOf(t))

\* the expected-value check on the file, with the edit map as the expected
\* values, prints no [FAIL] line for the field of visit t
CheckPasses(t) ==
    /\ ~DecodeRaises(jsb_file, offsets)
    /\ \A m \in 1..Len(verify_physical_constraints(jsb_file, offsets, json.items).lines) :
          LET l == verify_physical_constraints(jsb_file, offsets, json.items).lines[m]
          IN  l.key = trail[t].key => l.kind # "FAIL"

\* C29 as written: after a patch that completed, the decoder reads, for every
\* occurrence the patch wrote, the value written, and the expected-value check
\* with the edit map passes for its field.  Stated on the runs in which the
\* buffer kept its length, so that a violation does not rest on C1.
C29_SameLocationAlways ==
    (pc = "done" /\ Len(jsb_file) = Len(before)) =>
        \A t \in 1..Len(trail) :
            Written(t) => GrabOf(t) = <<trail[t].val>> /\ CheckPasses(t)

\* the bytes of the occurrence of visit t: key text, indicator and value
Extent(t) == OffsetOf(t)..(trail[t].pos + 4)

\* the key text of the occurrence of visit t is made of letters, digits and
\* underscores in the buffer the patch read, so that the decoder's scan from
\* the offset stops at offset + len(key)
KeyTextAt(t) == find_indicator(before, OffsetOf(t)) = trail[t].pos

\* no other visit of the patch wrote into the occurrence of visit t
Undisturbed(t) ==
    \A u \in 1..Len(trail) :
        (u # t /\ Written(u)) => ValueRegion(trail[u].pos) \cap Extent(t) = {}

\* every table entry the decoder looks at lies inside the file
DecoderReturns == ~DecodeRaises(jsb_file, offsets)

\* C29 (amended): after a patch that completed, for every occurrence the patch
\* wrote whose key text is made of letters, digits and underscores and into
\* which no other occurrence of the patch was written, the decoder reads the
\* value written, and when the decoder returns the expected-value check with
\* the edit map passes for the field.
C29_SameLocation ==
    pc = "done" =>
        \A t \in 1..Len(trail) :
            (Written(t) /\ KeyTextAt(t) /\ Undisturbed(t)) =>
                /\ GrabOf(t) = <<trail[t].val>>
                /\ DecoderReturns => CheckPasses(t)

\* both copies of run_speed were written with a value they did not hold, and
\* the decoder reads it from both
C29_Witness ==
    /\ pc = "done" /\ Len(trail) = 2
    /\ \A t \in 1..2 :
          /\ Written(t) /\ KeyTextAt(t) /\ Undisturbed(t)
          /\ grab(before, OffsetOf(t)) # <<trail[t].val>>
          /\ GrabOf(t) = <<trail[t].val>>
          /\ CheckPasses(t)

====
